---- MODULE Spec2Model ----
(***************************************************************************)
(* A model of the stateless conversational agent of the todo backend:      *)
(*   - the five task tools of app/mcp/server.py (the Tool Registry),       *)
(*   - TodoAgent.run and _execute_tool_call of app/ai/agent.py,            *)
(*   - send_chat_message and its helpers of app/routers/chat.py.           *)
(* Optional values are sequences of length at most one: <<>> is Python's   *)
(* None (or an absent keyword argument), <<v>> is the value v.  Strings    *)
(* that the code searches or splits (the tags column) are sequences of     *)
(* one-character strings.                                                  *)
(***************************************************************************)
EXTENDS Integers, Sequences, FiniteSets, TLC

VARIABLES
    tasks,        \* the committed tasks table: task id -> row
    nextTaskId,   \* the next fresh primary key (a uuid4 in the code)
    now,          \* the last value datetime.utcnow() returned
    lastCall,     \* the last invocation of a tool function, with its result
    ops,          \* tool functions invoked so far by the test driver
    req,          \* per handler instance: the locals of the request it serves
    db,           \* the committed conversations and messages tables
    served        \* the requests answered so far, with the response each got

toolVars == <<tasks, nextTaskId, now, lastCall, ops>>
chatVars == <<db, served>>
vars == <<tasks, nextTaskId, now, lastCall, ops, req, db, served>>

(***************************************************************************)
(* Bounds of the model and constants of the program                        *)
(***************************************************************************)
MaxOps == 2
MaxTasks == 2
MaxIter == 2
MaxRequests == 2
MaxExchanges == 2
MaxFetchLimit == 5

MaxTitleLen == 200
MaxDescriptionLen == 1000
DefaultListLimit == 20
MaxListLimit == 100
DefaultMaxIterations == 5
HandlerMaxIterations == 5
HistoryLimit == 20

Users == {"alice", "bob"}

None == <<>>
Some(v) == <<v>>

LongTitle == "TTTTTTTTTTTTTTTTTTTTTTTTTTTTTTTTTTTTTTTTTTTTTTTTTTTTTTTTTTTTTTTTTTTTTTTTTTTTTTTTTTTTTTTTTTTTTTTTTTTTTTTTTTTTTTTTTTTTTTTTTTTTTTTTTTTTTTTTTTTTTTTTTTTTTTTTTTTTTTTTTTTTTTTTTTTTTTTTTTTTTTTTTTTTTTTTTTTTTTTTT"
LongDescription == "DDDDDDDDDDDDDDDDDDDDDDDDDDDDDDDDDDDDDDDDDDDDDDDDDDDDDDDDDDDDDDDDDDDDDDDDDDDDDDDDDDDDDDDDDDDDDDDDDDDDDDDDDDDDDDDDDDDDDDDDDDDDDDDDDDDDDDDDDDDDDDDDDDDDDDDDDDDDDDDDDDDDDDDDDDDDDDDDDDDDDDDDDDDDDDDDDDDDDDDDDDDDDDDDDDDDDDDDDDDDDDDDDDDDDDDDDDDDDDDDDDDDDDDDDDDDDDDDDDDDDDDDDDDDDDDDDDDDDDDDDDDDDDDDDDDDDDDDDDDDDDDDDDDDDDDDDDDDDDDDDDDDDDDDDDDDDDDDDDDDDDDDDDDDDDDDDDDDDDDDDDDDDDDDDDDDDDDDDDDDDDDDDDDDDDDDDDDDDDDDDDDDDDDDDDDDDDDDDDDDDDDDDDDDDDDDDDDDDDDDDDDDDDDDDDDDDDDDDDDDDDDDDDDDDDDDDDDDDDDDDDDDDDDDDDDDDDDDDDDDDDDDDDDDDDDDDDDDDDDDDDDDDDDDDDDDDDDDDDDDDDDDDDDDDDDDDDDDDDDDDDDDDDDDDDDDDDDDDDDDDDDDDDDDDDDDDDDDDDDDDDDDDDDDDDDDDDDDDDDDDDDDDDDDDDDDDDDDDDDDDDDDDDDDDDDDDDDDDDDDDDDDDDDDDDDDDDDDDDDDDDDDDDDDDDDDDDDDDDDDDDDDDDDDDDDDDDDDDDDDDDDDDDDDDDDDDDDDDDDDDDDDDDDDDDDDDDDDDDDDDDDDDDDDDDDDDDDDDDDDDDDDDDDDDDDDDDDDDDDDDDDDDDDDDDDDDDDDDDDDDDDDDDDDDDDDDDDDDDDDDDDDDDDDDDDDDDDDDDDDDDDDDDDDDDDDDDDDDDDDDDDDDDDDDDDDDDDDDDDDDDDDDDDDDDDDDDDDDDDDDDDDDDDDDDDDDDDDDDDDDDDDDDDDDDDDDDDDDDDDDDDDDDDDDDDDDDDDDDDDDDDDDDDDDDDDDDDDDDDDD"

(***************************************************************************)
(* Text helpers: str.join, str.split, the SQL contains() and the datetime  *)
(* conversions                                                             *)
(***************************************************************************)
RECURSIVE Join(_)
Join(tags) ==
    IF tags = <<>> THEN <<>>
    ELSE IF Len(tags) = 1 THEN tags[1]
    ELSE tags[1] \o <<",">> \o Join(Tail(tags))

RECURSIVE SplitFrom(_, _)
SplitFrom(s, cur) ==
    IF s = <<>> THEN <<cur>>
    ELSE IF s[1] = "," THEN <<cur>> \o SplitFrom(Tail(s), <<>>)
    ELSE SplitFrom(Tail(s), Append(cur, s[1]))

Split(s) == SplitFrom(s, <<>>)

Contains(hay, needle) ==
    \E i \in 0..(Len(hay) - Len(needle)) :
        SubSeq(hay, i + 1, i + Len(needle)) = needle

\* datetime.fromisoformat(due_date.replace('Z', '+00:00')): <<>> is ValueError
FromIsoFormat(s) ==
    CASE s = "2026-01-14"           -> Some([date |-> "2026-01-14", time |-> "00:00:00", tz |-> ""])
      [] s = "2026-01-14T09:30:00"  -> Some([date |-> "2026-01-14", time |-> "09:30:00", tz |-> ""])
      [] s = "2026-01-14T09:30:00Z" -> Some([date |-> "2026-01-14", time |-> "09:30:00", tz |-> "+00:00"])
      [] OTHER                      -> None

IsoFormat(d) == d.date \o "T" \o d.time \o d.tz

TagsOut(t) == IF t.tags # <<>> THEN Split(t.tags) ELSE <<>>
DueOut(t) == IF t.due_date # None THEN Some(IsoFormat(t.due_date[1])) ELSE None

(***************************************************************************)
(* The Tool Registry (app/mcp/server.py).  A tool maps the tasks table,    *)
(* the caller and the keyword arguments to the set of its possible         *)
(* outcomes [tasks, res]: the table it leaves committed and the dict it    *)
(* returns.  dbok = FALSE is an exception raised inside get_db_session     *)
(* (the session is rolled back and the tool's except branch answers).      *)
(***************************************************************************)
NoArgs ==
    [task_id |-> None, title |-> None, description |-> None, status |-> None,
     priority |-> None, tags |-> None, due_date |-> None, limit |-> None]

\* Python truthiness of an optional string and of an optional list
Truthy(o) == o # None /\ o[1] # ""
TruthyList(o) == o # None /\ o[1] # <<>>

\* A failure result that carries no error text
BareFailure(msg) ==
    [success |-> FALSE, error |-> None, data |-> <<>>, count |-> None, message |-> None]

Failure(msg) ==
    [success |-> FALSE, error |-> Some(msg), data |-> <<>>, count |-> None, message |-> None]

Success(data, count, message) ==
    [success |-> TRUE, error |-> None, data |-> data, count |-> count, message |-> message]

NotFound == Failure("Task not found or access denied")

Priorities == {"Low", "Medium", "High"}
KanbanStatuses == {"ready", "in_progress", "done"}
ListStatuses == {"pending", "completed"}

\* A lookup that forgets the owner filter
LookupByIdOnly(store, user_id, task_id) ==
    IF task_id \in DOMAIN store THEN Some(store[task_id]) ELSE None

\* select(Task).where(Task.id == task_id, Task.user_id == user_id)
OwnedLookup(store, user_id, task_id) ==
    IF task_id \in DOMAIN store /\ store[task_id].user_id = user_id
    THEN Some(store[task_id]) ELSE None

\* A miss that tells a foreign task from an unknown id
LeakyMiss(store, task_id) ==
    IF task_id \in DOMAIN store THEN Failure("Access denied") ELSE NotFound

\* if not task: return {"success": False, "error": "Task not found or access denied"}
MissResult(store, task_id) == NotFound

\* An add_task whose default priority is Low
AddDefaultsToLow(store, user_id, a, nid, t, dbok) ==
    LET title == a.title[1]
        priority == IF a.priority = None THEN "Low" ELSE a.priority[1]
        parsed == IF Truthy(a.due_date) THEN FromIsoFormat(a.due_date[1]) ELSE None
        task == [id |-> nid, user_id |-> user_id, title |-> title,
                 description |-> a.description, priority |-> priority,
                 tags |-> IF TruthyList(a.tags) THEN Join(a.tags[1]) ELSE <<>>,
                 due_date |-> parsed, completed |-> FALSE, status |-> "ready",
                 recurrence_pattern |-> None, recurrence_interval |-> 1,
                 created_at |-> t, updated_at |-> t]
    IN  IF title = "" \/ Len(title) > MaxTitleLen
        THEN {[tasks |-> store, res |-> Failure("Title is required and must be 200 characters or less")]}
        ELSE IF Truthy(a.description) /\ Len(a.description[1]) > MaxDescriptionLen
        THEN {[tasks |-> store, res |-> Failure("Description must be 1000 characters or less")]}
        ELSE IF priority \notin Priorities
        THEN {[tasks |-> store, res |-> Failure("Priority must be one of: Low, Medium, High")]}
        ELSE IF Truthy(a.due_date) /\ parsed = None
        THEN {[tasks |-> store, res |-> Failure("Invalid due_date format. Use ISO 8601 (YYYY-MM-DD or YYYY-MM-DDTHH:MM:SS)")]}
        ELSE IF ~dbok
        THEN {[tasks |-> store, res |-> Failure("Failed to create task: database error")]}
        ELSE {[tasks |-> store @@ (nid :> task),
               res |-> Success(<<[id |-> task.id, title |-> task.title,
                                  description |-> task.description,
                                  priority |-> task.priority, tags |-> TagsOut(task),
                                  due_date |-> DueOut(task), completed |-> task.completed,
                                  status |-> task.status, created_at |-> task.created_at]>>,
                               None, None)]}

add_task(store, user_id, a, nid, t, dbok) ==
    LET title == a.title[1]
        priority == IF a.priority = None THEN "Medium" ELSE a.priority[1]
        parsed == IF Truthy(a.due_date) THEN FromIsoFormat(a.due_date[1]) ELSE None
        task == [id |-> nid, user_id |-> user_id, title |-> title,
                 description |-> a.description, priority |-> priority,
                 tags |-> IF TruthyList(a.tags) THEN Join(a.tags[1]) ELSE <<>>,
                 due_date |-> parsed, completed |-> FALSE, status |-> "ready",
                 recurrence_pattern |-> None, recurrence_interval |-> 1,
                 created_at |-> t, updated_at |-> t]
    IN  IF title = "" \/ Len(title) > MaxTitleLen
        THEN {[tasks |-> store, res |-> Failure("Title is required and must be 200 characters or less")]}
        ELSE IF Truthy(a.description) /\ Len(a.description[1]) > MaxDescriptionLen
        THEN {[tasks |-> store, res |-> Failure("Description must be 1000 characters or less")]}
        ELSE IF priority \notin Priorities
        THEN {[tasks |-> store, res |-> Failure("Priority must be one of: Low, Medium, High")]}
        ELSE IF Truthy(a.due_date) /\ parsed = None
        THEN {[tasks |-> store, res |-> Failure("Invalid due_date format. Use ISO 8601 (YYYY-MM-DD or YYYY-MM-DDTHH:MM:SS)")]}
        ELSE IF ~dbok
        THEN {[tasks |-> store, res |-> Failure("Failed to create task: database error")]}
        ELSE {[tasks |-> store @@ (nid :> task),
               res |-> Success(<<[id |-> task.id, title |-> task.title,
                                  description |-> task.description,
                                  priority |-> task.priority, tags |-> TagsOut(task),
                                  due_date |-> DueOut(task), completed |-> task.completed,
                                  status |-> task.status, created_at |-> task.created_at]>>,
                               None, None)]}

\* A statement that forgets its user filter
ListMatchesAllUsers(store, user_id, a) ==
    {i \in DOMAIN store :
        /\ Truthy(a.status) => (store[i].completed = (a.status[1] = "completed"))
        /\ Truthy(a.priority) => (store[i].priority = a.priority[1])
        /\ TruthyList(a.tags) =>
              \E k \in 1..Len(a.tags[1]) : Contains(store[i].tags, a.tags[1][k])}

\* The rows the list_tasks statement selects, before LIMIT
ListMatches(store, user_id, a) ==
    {i \in DOMAIN store :
        /\ store[i].user_id = user_id
        /\ Truthy(a.status) => (store[i].completed = (a.status[1] = "completed"))
        /\ Truthy(a.priority) => (store[i].priority = a.priority[1])
        /\ TruthyList(a.tags) =>
              \E k \in 1..Len(a.tags[1]) : Contains(store[i].tags, a.tags[1][k])}

\* Without ORDER BY the store returns any min(limit, n) of the rows, in any order
LimitedRows(ids, limit) ==
    LET n == IF Cardinality(ids) < limit THEN Cardinality(ids) ELSE limit
    IN  {q \in [1..n -> ids] : \A i, j \in 1..n : i # j => q[i] # q[j]}

\* The dict list_tasks builds from the rows the query returned, in their order
ListResult(store, q) ==
    LET row(t) == [id |-> t.id, title |-> t.title, description |-> t.description,
                   priority |-> t.priority, tags |-> TagsOut(t),
                   due_date |-> DueOut(t), completed |-> t.completed,
                   status |-> t.status, created_at |-> t.created_at]
    IN  Success([k \in 1..Len(q) |-> row(store[q[k]])], Some(Len(q)), None)

list_tasks(store, user_id, a, dbok) ==
    LET limit == IF a.limit = None THEN DefaultListLimit ELSE a.limit[1]
    IN  IF limit < 1 \/ limit > MaxListLimit
        THEN {[tasks |-> store, res |-> Failure("Limit must be between 1 and 100")]}
        ELSE IF Truthy(a.priority) /\ a.priority[1] \notin Priorities
        THEN {[tasks |-> store, res |-> Failure("Priority must be one of: Low, Medium, High")]}
        ELSE IF Truthy(a.status) /\ a.status[1] \notin ListStatuses
        THEN {[tasks |-> store, res |-> Failure("Status must be one of: pending, completed")]}
        ELSE IF ~dbok
        THEN {[tasks |-> store, res |-> Failure("Failed to retrieve tasks: database error")]}
        ELSE {[tasks |-> store, res |-> ListResult(store, q)] :
                 q \in LimitedRows(ListMatches(store, user_id, a), limit)}

\* The checks update_task makes before it opens a session: the error of the
\* first one that fails, or None
\* An update_task validation that lets any status through
UpdateValidationSkipsStatus(a) ==
    IF /\ a.title = None /\ a.description = None /\ a.status = None
       /\ a.priority = None /\ a.tags = None /\ a.due_date = None
    THEN Some("At least one field must be provided to update")
    ELSE IF a.title # None /\ (a.title[1] = "" \/ Len(a.title[1]) > MaxTitleLen)
    THEN Some("Title must be between 1 and 200 characters")
    ELSE IF a.description # None /\ Len(a.description[1]) > MaxDescriptionLen
    THEN Some("Description must be 1000 characters or less")
    ELSE IF a.priority # None /\ a.priority[1] \notin Priorities
    THEN Some("Priority must be one of: Low, Medium, High")
    ELSE IF a.due_date # None /\ FromIsoFormat(a.due_date[1]) = None
    THEN Some("Invalid due_date format. Use ISO 8601 (YYYY-MM-DD or YYYY-MM-DDTHH:MM:SS)")
    ELSE None

UpdateValidation(a) ==
    IF /\ a.title = None /\ a.description = None /\ a.status = None
       /\ a.priority = None /\ a.tags = None /\ a.due_date = None
    THEN Some("At least one field must be provided to update")
    ELSE IF a.title # None /\ (a.title[1] = "" \/ Len(a.title[1]) > MaxTitleLen)
    THEN Some("Title must be between 1 and 200 characters")
    ELSE IF a.description # None /\ Len(a.description[1]) > MaxDescriptionLen
    THEN Some("Description must be 1000 characters or less")
    ELSE IF a.priority # None /\ a.priority[1] \notin Priorities
    THEN Some("Priority must be one of: Low, Medium, High")
    ELSE IF a.status # None /\ a.status[1] \notin KanbanStatuses
    THEN Some("Status must be one of: ready, in_progress, done")
    ELSE IF a.due_date # None /\ FromIsoFormat(a.due_date[1]) = None
    THEN Some("Invalid due_date format. Use ISO 8601 (YYYY-MM-DD or YYYY-MM-DDTHH:MM:SS)")
    ELSE None

\* An update_task that writes every column from its arguments, a default
\* where the call supplied none
UpdateRewritesAll(store, user_id, a, t, dbok) ==
    LET task_id == a.task_id[1]
        parsed == IF a.due_date # None THEN FromIsoFormat(a.due_date[1]) ELSE None
        found == OwnedLookup(store, user_id, task_id)
        old == found[1]
        new == [old EXCEPT
                  !.title = IF a.title # None THEN a.title[1] ELSE @,
                  !.description = a.description,
                  !.status = IF a.status # None THEN a.status[1] ELSE @,
                  !.completed = IF a.status # None /\ a.status[1] = "done" THEN TRUE ELSE @,
                  !.priority = IF a.priority # None THEN a.priority[1] ELSE "Medium",
                  !.tags = IF a.tags # None THEN Join(a.tags[1]) ELSE <<>>,
                  !.due_date = parsed,
                  !.updated_at = t]
    IN  IF UpdateValidation(a) # None
        THEN {[tasks |-> store, res |-> Failure(UpdateValidation(a)[1])]}
        ELSE IF ~dbok
        THEN {[tasks |-> store, res |-> Failure("Failed to update task: database error")]}
        ELSE IF found = None
        THEN {[tasks |-> store, res |-> MissResult(store, task_id)]}
        ELSE {[tasks |-> [store EXCEPT ![task_id] = new],
               res |-> Success(<<[id |-> new.id, title |-> new.title,
                                  description |-> new.description,
                                  priority |-> new.priority, tags |-> TagsOut(new),
                                  due_date |-> DueOut(new), completed |-> new.completed,
                                  status |-> new.status, updated_at |-> new.updated_at]>>,
                               None, None)]}

\* An update_task that validates after it has looked the task up
UpdateLooksUpFirst(store, user_id, a, t, dbok) ==
    LET task_id == a.task_id[1]
        parsed == IF a.due_date # None THEN FromIsoFormat(a.due_date[1]) ELSE None
        found == OwnedLookup(store, user_id, task_id)
        old == found[1]
        new == [old EXCEPT
                  !.title = IF a.title # None THEN a.title[1] ELSE @,
                  !.description = IF a.description # None THEN a.description ELSE @,
                  !.status = IF a.status # None THEN a.status[1] ELSE @,
                  !.completed = IF a.status # None /\ a.status[1] = "done" THEN TRUE ELSE @,
                  !.priority = IF a.priority # None THEN a.priority[1] ELSE @,
                  !.tags = IF a.tags # None THEN Join(a.tags[1]) ELSE @,
                  !.due_date = IF parsed # None THEN parsed ELSE @,
                  !.updated_at = t]
    IN  IF ~dbok
        THEN {[tasks |-> store, res |-> Failure("Failed to update task: database error")]}
        ELSE IF found = None
        THEN {[tasks |-> store, res |-> MissResult(store, task_id)]}
        ELSE IF UpdateValidation(a) # None
        THEN {[tasks |-> store, res |-> Failure(UpdateValidation(a)[1])]}
        ELSE {[tasks |-> [store EXCEPT ![task_id] = new],
               res |-> Success(<<[id |-> new.id, title |-> new.title,
                                  description |-> new.description,
                                  priority |-> new.priority, tags |-> TagsOut(new),
                                  due_date |-> DueOut(new), completed |-> new.completed,
                                  status |-> new.status, updated_at |-> new.updated_at]>>,
                               None, None)]}

update_task(store, user_id, a, t, dbok) ==
    LET task_id == a.task_id[1]
        parsed == IF a.due_date # None THEN FromIsoFormat(a.due_date[1]) ELSE None
        found == OwnedLookup(store, user_id, task_id)
        old == found[1]
        new == [old EXCEPT
                  !.title = IF a.title # None THEN a.title[1] ELSE @,
                  !.description = IF a.description # None THEN a.description ELSE @,
                  !.status = IF a.status # None THEN a.status[1] ELSE @,
                  !.completed = IF a.status # None /\ a.status[1] = "done" THEN TRUE ELSE @,
                  !.priority = IF a.priority # None THEN a.priority[1] ELSE @,
                  !.tags = IF a.tags # None THEN Join(a.tags[1]) ELSE @,
                  !.due_date = IF parsed # None THEN parsed ELSE @,
                  !.updated_at = t]
    IN  IF UpdateValidation(a) # None
        THEN {[tasks |-> store, res |-> Failure(UpdateValidation(a)[1])]}
        ELSE IF ~dbok
        THEN {[tasks |-> store, res |-> Failure("Failed to update task: database error")]}
        ELSE IF found = None
        THEN {[tasks |-> store, res |-> MissResult(store, task_id)]}
        ELSE {[tasks |-> [store EXCEPT ![task_id] = new],
               res |-> Success(<<[id |-> new.id, title |-> new.title,
                                  description |-> new.description,
                                  priority |-> new.priority, tags |-> TagsOut(new),
                                  due_date |-> DueOut(new), completed |-> new.completed,
                                  status |-> new.status, updated_at |-> new.updated_at]>>,
                               None, None)]}

\* A complete_task that flips the completion of the task it finds
CompleteToggles(store, user_id, a, t, dbok) ==
    LET task_id == a.task_id[1]
        found == OwnedLookup(store, user_id, task_id)
        new == [found[1] EXCEPT !.completed = ~@,
                                !.status = IF found[1].completed THEN "ready" ELSE "done",
                                !.updated_at = t]
    IN  IF ~dbok
        THEN {[tasks |-> store, res |-> Failure("Failed to complete task: database error")]}
        ELSE IF found = None
        THEN {[tasks |-> store, res |-> MissResult(store, task_id)]}
        ELSE {[tasks |-> [store EXCEPT ![task_id] = new],
               res |-> Success(<<[id |-> new.id, title |-> new.title,
                                  completed |-> new.completed, status |-> new.status,
                                  updated_at |-> new.updated_at]>>,
                               None, Some("Task '" \o new.title \o "' marked as completed"))]}

complete_task(store, user_id, a, t, dbok) ==
    LET task_id == a.task_id[1]
        found == OwnedLookup(store, user_id, task_id)
        new == [found[1] EXCEPT !.completed = TRUE, !.status = "done", !.updated_at = t]
    IN  IF ~dbok
        THEN {[tasks |-> store, res |-> Failure("Failed to complete task: database error")]}
        ELSE IF found = None
        THEN {[tasks |-> store, res |-> MissResult(store, task_id)]}
        ELSE {[tasks |-> [store EXCEPT ![task_id] = new],
               res |-> Success(<<[id |-> new.id, title |-> new.title,
                                  completed |-> new.completed, status |-> new.status,
                                  updated_at |-> new.updated_at]>>,
                               None, Some("Task '" \o new.title \o "' marked as completed"))]}

\* A delete_task that finds the task by its id alone
DeleteWithoutOwnerFilter(store, user_id, a, dbok) ==
    LET task_id == a.task_id[1]
        found == IF task_id \in DOMAIN store THEN Some(store[task_id]) ELSE None
    IN  IF ~dbok
        THEN {[tasks |-> store, res |-> Failure("Failed to delete task: database error")]}
        ELSE IF found = None
        THEN {[tasks |-> store, res |-> MissResult(store, task_id)]}
        ELSE {[tasks |-> [i \in DOMAIN store \ {task_id} |-> store[i]],
               res |-> Success(<<[id |-> found[1].id, title |-> found[1].title,
                                  deleted |-> TRUE]>>,
                               None, Some("Task '" \o found[1].title \o "' has been permanently deleted"))]}

delete_task(store, user_id, a, dbok) ==
    LET task_id == a.task_id[1]
        found == OwnedLookup(store, user_id, task_id)
    IN  IF ~dbok
        THEN {[tasks |-> store, res |-> Failure("Failed to delete task: database error")]}
        ELSE IF found = None
        THEN {[tasks |-> store, res |-> MissResult(store, task_id)]}
        ELSE {[tasks |-> [i \in DOMAIN store \ {task_id} |-> store[i]],
               res |-> Success(<<[id |-> found[1].id, title |-> found[1].title,
                                  deleted |-> TRUE]>>,
                               None, Some("Task '" \o found[1].title \o "' has been permanently deleted"))]}

ToolNames == {"add_task", "list_tasks", "update_task", "complete_task", "delete_task"}

\* The name-keyed table of tool functions (TodoAgent.tool_functions)
tool_functions(name, store, user_id, a, nid, t, dbok) ==
    CASE name = "add_task"      -> add_task(store, user_id, a, nid, t, dbok)
      [] name = "list_tasks"    -> list_tasks(store, user_id, a, dbok)
      [] name = "update_task"   -> update_task(store, user_id, a, t, dbok)
      [] name = "complete_task" -> complete_task(store, user_id, a, t, dbok)
      [] name = "delete_task"   -> delete_task(store, user_id, a, dbok)

(***************************************************************************)
(* The Agent Loop (app/ai/agent.py): the working context, the model's       *)
(* responses and _execute_tool_call                                         *)
(***************************************************************************)
Reqs == {1, 2}

SystemPrompt == "You are a helpful TODO task assistant."
FallbackReply == "I apologize, but I couldn't complete your request within the allowed time. Please try again or rephrase your request."
EmptyReply == "I apologize, but I couldn't complete your request."

\* The content of a working-context entry: plain text, or json.dumps(result)
Text(s) == [text |-> s, json |-> None]
JsonDumps(res) == [text |-> "", json |-> Some(res)]

Entry(role, content) ==
    [role |-> role, content |-> content, tool_calls |-> None, tool_call_id |-> None]

AssistantEntry(message) ==
    [role |-> "assistant",
     content |-> Text(IF Truthy(message.content) THEN message.content[1] ELSE ""),
     tool_calls |-> IF message.tool_calls # <<>> THEN Some(message.tool_calls) ELSE None,
     tool_call_id |-> None]

ToolEntry(tool_call, tool_result) ==
    [role |-> "tool", content |-> JsonDumps(tool_result), tool_calls |-> None,
     tool_call_id |-> Some(tool_call.id)]

\* The argument payload of a tool call is a string: JSON text of a dict with the
\* keys the model chose (user_id, the tool's arguments, possibly a key no tool
\* accepts), or text that is not JSON.
Payload(uid, a) ==
    [wellformed |-> TRUE, dict |-> [user_id |-> uid, extra |-> FALSE, args |-> a]]
NotJson == [wellformed |-> FALSE, dict |-> [user_id |-> None, extra |-> FALSE, args |-> NoArgs]]

\* json.loads(tool_call.function.arguments): None is JSONDecodeError
JsonLoads(p) == IF p.wellformed THEN Some(p.dict) ELSE None

ToolCall(id, name, arguments) == [id |-> id, name |-> name, arguments |-> arguments]

\* Keyword parameters of each tool function besides user_id, and the required ones
Accepted(name) ==
    CASE name = "add_task"      -> {"title", "description", "priority", "tags", "due_date"}
      [] name = "list_tasks"    -> {"status", "priority", "tags", "limit"}
      [] name = "update_task"   -> {"task_id", "title", "description", "status", "priority",
                                    "tags", "due_date"}
      [] name = "complete_task" -> {"task_id"}
      [] name = "delete_task"   -> {"task_id"}

Required(name) ==
    CASE name = "add_task"      -> {"title"}
      [] name = "list_tasks"    -> {}
      [] name = "update_task"   -> {"task_id"}
      [] name = "complete_task" -> {"task_id"}
      [] name = "delete_task"   -> {"task_id"}

PresentKeys(a) == {k \in DOMAIN a : a[k] # None}

\* tool_func(**tool_args) raises TypeError before the tool's body runs
BindError(name, d) ==
    \/ d.extra
    \/ d.user_id = None
    \/ ~(PresentKeys(d.args) \subseteq Accepted(name))
    \/ ~(Required(name) \subseteq PresentKeys(d.args))

\* An injection that keeps a user_id the payload already carries
InjectIfAbsent(tool_args, user_id) ==
    IF tool_args.user_id = None THEN [tool_args EXCEPT !.user_id = Some(user_id)]
    ELSE tool_args

\* tool_args["user_id"] = user_id
Inject(tool_args, user_id) == [tool_args EXCEPT !.user_id = Some(user_id)]

\* An _execute_tool_call that looks the name up before it parses the payload
ExecuteLooksUpFirst(tool_call, user_id) ==
    LET parsed == JsonLoads(tool_call.arguments)
        tool_args == Inject(parsed[1], user_id)
        answer(res) == [dispatch |-> FALSE, name |-> tool_call.name, user_id |-> "",
                        args |-> NoArgs, res |-> res]
    IN  IF tool_call.name \notin ToolNames
        THEN answer(Failure("Unknown tool: " \o tool_call.name))
        ELSE IF parsed = None
        THEN answer(Failure("Tool execution failed: JSONDecodeError"))
        ELSE IF BindError(tool_call.name, tool_args)
        THEN answer(Failure("Tool execution failed: TypeError"))
        ELSE [dispatch |-> TRUE, name |-> tool_call.name, user_id |-> tool_args.user_id[1],
              args |-> tool_args.args, res |-> Failure("")]

\* _execute_tool_call up to the call of the tool function: either the dict it
\* returns without calling one, or the call it dispatches
execute_tool_call(tool_call, user_id) ==
    LET parsed == JsonLoads(tool_call.arguments)
        tool_args == Inject(parsed[1], user_id)
        answer(res) == [dispatch |-> FALSE, name |-> tool_call.name, user_id |-> "",
                        args |-> NoArgs, res |-> res]
    IN  IF parsed = None
        THEN answer(Failure("Tool execution failed: JSONDecodeError"))
        ELSE IF tool_call.name \notin ToolNames
        THEN answer(Failure("Unknown tool: " \o tool_call.name))
        ELSE IF BindError(tool_call.name, tool_args)
        THEN answer(Failure("Tool execution failed: TypeError"))
        ELSE [dispatch |-> TRUE, name |-> tool_call.name, user_id |-> tool_args.user_id[1],
              args |-> tool_args.args, res |-> Failure("")]

\* The conversation store before the first request: no row, the id sequence at 1
EmptyDb == [conversations |-> <<>>, messages |-> <<>>, nextConvId |-> 1]

\* An AsyncSession that holds nothing: no conversation inserted by flush, no
\* conversation with a new updated_at, no message added
NoSession == [conversation |-> None, touched |-> None, messages |-> <<>>]

\* The locals of one request; a handler instance that serves none is idle
IdleReq ==
    [pc |-> "idle", caller |-> "none", stub |-> "none", user_id |-> "",
     ctx |-> <<>>, base |-> 0, max_iterations |-> 0, iterations |-> 0,
     model_calls |-> 0, tool_calls |-> <<>>, next |-> 1, reply |-> None,
     number |-> 0, message |-> "", conversation_id |-> None, conversation |-> None,
     session |-> NoSession, history |-> <<>>]

(***************************************************************************)
(* Direct use of the tools, as the repository's tests drive them            *)
(* (test_security.py, test_user_isolation.py): any user calls any tool      *)
(* with arguments drawn from the sets below.                                *)
(***************************************************************************)
TaskIdInputs == 1..MaxOps

AddInputs ==
    {[NoArgs EXCEPT !.title = Some(x)] : x \in {"Buy milk", "", LongTitle}}
    \cup {[NoArgs EXCEPT !.title = Some("Buy milk"), !.priority = Some(x)] : x \in {"High", "Urgent"}}
    \cup {[NoArgs EXCEPT !.title = Some("Buy milk"), !.description = Some(x)] : x \in {"2 litres", LongDescription}}
    \cup {[NoArgs EXCEPT !.title = Some("Buy milk"), !.due_date = Some(x)] : x \in {"2026-01-14", "tomorrow", ""}}
    \cup {[NoArgs EXCEPT !.title = Some("Buy milk"), !.tags = Some(x)] : x \in {<< <<"a">>, <<"b">> >>}}

ListInputs ==
    {NoArgs}
    \cup {[NoArgs EXCEPT !.limit = Some(x)] : x \in {0, 1, 101}}
    \cup {[NoArgs EXCEPT !.status = Some(x)] : x \in {"pending", "completed", "open", ""}}
    \cup {[NoArgs EXCEPT !.priority = Some(x)] : x \in {"High", "Urgent", ""}}
    \cup {[NoArgs EXCEPT !.tags = Some(x)] : x \in {<< <<"a">> >>}}

UpdateFields ==
    {NoArgs}
    \cup {[NoArgs EXCEPT !.title = Some(x)] : x \in {"Call mom", "", LongTitle}}
    \cup {[NoArgs EXCEPT !.status = Some(x)] : x \in {"in_progress", "done", "archived"}}
    \cup {[NoArgs EXCEPT !.priority = Some(x)] : x \in {"Low", "Urgent"}}
    \cup {[NoArgs EXCEPT !.description = Some(x)] : x \in {"2 litres"}}
    \cup {[NoArgs EXCEPT !.tags = Some(x)] : x \in {<<>>}}
    \cup {[NoArgs EXCEPT !.due_date = Some(x)] : x \in {"2026-01-14T09:30:00Z", ""}}

UpdateInputs == {[f EXCEPT !.task_id = Some(i)] : f \in UpdateFields, i \in TaskIdInputs}

IdInputs == {[NoArgs EXCEPT !.task_id = Some(i)] : i \in TaskIdInputs}

DriverInputs(name) ==
    CASE name = "add_task"      -> AddInputs
      [] name = "list_tasks"    -> ListInputs
      [] name = "update_task"   -> UpdateInputs
      [] name = "complete_task" -> IdInputs
      [] name = "delete_task"   -> IdInputs

NoCall == [name |-> "none", user_id |-> "", args |-> NoArgs, res |-> Failure(""), before |-> <<>>]

\* The tools that call datetime.utcnow() when they reach their write
ClockReaders == {"add_task", "update_task", "complete_task"}

\* One awaited call of a tool function: the tool's own session commits or rolls
\* back before the call returns.  A read of the clock returns the last value
\* read or a later one.
Invoke(name, user_id, a, dbok) ==
    \E t \in {now, now + 1} :
      \E o \in tool_functions(name, tasks, user_id, a, nextTaskId, t, dbok) :
        /\ tasks' = o.tasks
        /\ nextTaskId' = IF nextTaskId \in DOMAIN o.tasks THEN nextTaskId + 1 ELSE nextTaskId
        /\ now' = IF name \in ClockReaders /\ o.res.success THEN t ELSE now
        /\ lastCall' = [name |-> name, user_id |-> user_id, args |-> a, res |-> o.res,
                        before |-> tasks]

DriverCall(name) ==
    /\ ops < MaxOps
    /\ lastCall = NoCall
    /\ ops' = ops + 1
    /\ UNCHANGED <<req, db, served>>
    /\ \E u \in Users, dbok \in BOOLEAN :
         \E a \in DriverInputs(name) : Invoke(name, u, a, dbok)

CallAddTask == DriverCall("add_task")
CallListTasks == DriverCall("list_tasks")
CallUpdateTask == DriverCall("update_task")
CallCompleteTask == DriverCall("complete_task")
CallDeleteTask == DriverCall("delete_task")

\* The driver has read the returned dict and drops it
DriverReturn ==
    /\ lastCall # NoCall
    /\ lastCall' = NoCall
    /\ UNCHANGED <<tasks, nextTaskId, now, ops, req, db, served>>

BuyMilk == [NoArgs EXCEPT !.title = Some("Buy milk")]

\* The tasks table when the first call arrives: empty, or with one task that an
\* earlier add_task stored
SeedStores ==
    {<<>>} \cup UNION {{o.tasks : o \in add_task(<<>>, u, BuyMilk, 1, 0, TRUE)} : u \in Users}

ToolInit ==
    /\ tasks \in SeedStores
    /\ nextTaskId = Len(tasks) + 1
    /\ now = 0
    /\ lastCall = NoCall
    /\ ops = 0
    /\ req = [r \in Reqs |-> IdleReq]
    /\ db = EmptyDb
    /\ served = <<>>

ToolNext ==
    \/ CallAddTask
    \/ CallListTasks
    \/ CallUpdateTask
    \/ CallCompleteTask
    \/ CallDeleteTask
    \/ DriverReturn

ToolSpec == ToolInit /\ [][ToolNext]_vars

(***************************************************************************)
(* The tools on the table of a user who has as many tasks as list_tasks    *)
(* returns by default, or one fewer.  The rows of a query without ORDER BY  *)
(* on such a table can come in more orders than can be enumerated, so a    *)
(* list_tasks that finds more than MaxTasks + 1 rows answers with one of    *)
(* two of them: the rows by ascending id from the first, or up to the last. *)
(***************************************************************************)
RECURSIVE Backlog(_, _)
Backlog(user_id, n) ==
    IF n = 0 THEN <<>>
    ELSE (CHOOSE o \in add_task(Backlog(user_id, n - 1), user_id, BuyMilk, n, 0, TRUE) : TRUE).tasks

RECURSIVE AscendingIds(_)
AscendingIds(ids) ==
    IF ids = {} THEN <<>>
    ELSE LET least == CHOOSE i \in ids : \A j \in ids : i <= j
         IN  <<least>> \o AscendingIds(ids \ {least})

SampledRows(ids, limit) ==
    LET n == IF Cardinality(ids) < limit THEN Cardinality(ids) ELSE limit
        all == AscendingIds(ids)
    IN  {q \in {SubSeq(all, 1, n), SubSeq(all, Len(all) - n + 1, Len(all))} :
           q \in LimitedRows(ids, limit)}

\* list_tasks(user_id) with no argument
ListOutcomes(store, user_id, dbok) ==
    LET ids == ListMatches(store, user_id, NoArgs)
    IN  IF ~dbok \/ Cardinality(ids) <= MaxTasks + 1
        THEN list_tasks(store, user_id, NoArgs, dbok)
        ELSE {[tasks |-> store, res |-> ListResult(store, q)] :
                 q \in SampledRows(ids, DefaultListLimit)}

BacklogInit ==
    /\ tasks \in SeedStores \cup {Backlog("alice", n) : n \in {DefaultListLimit - 1, DefaultListLimit}}
    /\ nextTaskId = Len(tasks) + 1
    /\ now = 0
    /\ lastCall = NoCall
    /\ ops = 0
    /\ req = [r \in Reqs |-> IdleReq]
    /\ db = EmptyDb
    /\ served = <<>>

\* add_task(user_id, title) with no optional argument
BacklogAdd ==
    /\ ops < MaxOps
    /\ lastCall = NoCall
    /\ ops' = ops + 1
    /\ UNCHANGED <<req, db, served>>
    /\ \E u \in Users, dbok \in BOOLEAN :
         \E a \in {[NoArgs EXCEPT !.title = Some(x)] : x \in {"Buy milk", "Call mom", ""}} :
            Invoke("add_task", u, a, dbok)

BacklogList ==
    /\ ops < MaxOps
    /\ lastCall = NoCall
    /\ ops' = ops + 1
    /\ \E u \in Users, dbok \in BOOLEAN :
         \E o \in ListOutcomes(tasks, u, dbok) :
            lastCall' = [name |-> "list_tasks", user_id |-> u, args |-> NoArgs, res |-> o.res,
                         before |-> tasks]
    /\ UNCHANGED <<tasks, nextTaskId, now, req, db, served>>

BacklogNext ==
    \/ BacklogAdd
    \/ BacklogList
    \/ DriverReturn

BacklogSpec == BacklogInit /\ [][BacklogNext]_vars

(***************************************************************************)
(* TodoAgent.run, one action per awaited step.  req[r].ctx is                *)
(* current_messages, req[r].base the length of the messages passed in,       *)
(* req[r].model_calls counts the calls of client.chat.completions.create.    *)
(* The model capability is a stub that answers with any message of the sets  *)
(* below, or raises.                                                         *)
(***************************************************************************)
Task1 == [NoArgs EXCEPT !.task_id = Some(1)]

HarnessCalls ==
    {ToolCall("call_1", "add_task", Payload(uid, BuyMilk)) : uid \in {None, Some("bob")}}
    \cup {ToolCall("call_1", "complete_task", Payload(uid, Task1)) : uid \in {None, Some("bob")}}
    \cup {ToolCall("call_1", "update_task", Payload(Some("alice"), [Task1 EXCEPT !.status = Some("done")])),
          ToolCall("call_1", "delete_task", Payload(Some("alice"), Task1)),
          ToolCall("call_1", "list_tasks", Payload(Some("alice"), NoArgs)),
          ToolCall("call_1", "add_task", Payload(None, NoArgs)),
          ToolCall("call_1", "add_task", Payload(None, [NoArgs EXCEPT !.title = Some("")])),
          ToolCall("call_1", "drop_tasks", Payload(None, NoArgs)),
          ToolCall("call_1", "drop_tasks", NotJson),
          ToolCall("call_1", "list_tasks", NotJson),
          ToolCall("call_1", "complete_task",
                   [wellformed |-> TRUE,
                    dict |-> [user_id |-> None, extra |-> TRUE, args |-> Task1]])}

HarnessToolMessages ==
    {[content |-> None, tool_calls |-> <<c>>] : c \in HarnessCalls}
    \cup {[content |-> Some("Working on it."),
           tool_calls |-> <<ToolCall("call_2", "add_task", Payload(Some("bob"), BuyMilk)),
                            ToolCall("call_1", "list_tasks", Payload(None, NoArgs))>>],
          [content |-> None,
           tool_calls |-> <<ToolCall("call_1", "complete_task", Payload(None, Task1)),
                            ToolCall("call_2", "delete_task", Payload(None, Task1))>>],
          [content |-> None,
           tool_calls |-> <<ToolCall("call_1", "drop_tasks", Payload(None, NoArgs)),
                            ToolCall("call_2", "list_tasks", Payload(None, NoArgs))>>]}

\* The stub of testable property 8: every response requests a tool call
AlwaysToolMessages ==
    {[content |-> None,
      tool_calls |-> <<ToolCall("call_1", "list_tasks", Payload(None, NoArgs))>>]}

TextMessages ==
    {[content |-> c, tool_calls |-> <<>>] : c \in {None, Some(""), Some("Done.")}}

\* The stub behind the chat handler: its first response may ask for a new task
\* or for the list of tasks, and it may answer every time with a call whose
\* payload is not JSON
HandlerToolMessages(q) ==
    IF q.iterations = 0
    THEN {[content |-> None,
           tool_calls |-> <<ToolCall("call_1", "add_task", Payload(Some("bob"), BuyMilk))>>],
          [content |-> None,
           tool_calls |-> <<ToolCall("call_1", "list_tasks", Payload(None, NoArgs))>>],
          [content |-> None, tool_calls |-> <<ToolCall("call_1", "list_tasks", NotJson)>>]}
    ELSE IF q.tool_calls[1].arguments = NotJson
    THEN {[content |-> None, tool_calls |-> <<ToolCall("call_1", "list_tasks", NotJson)>>]}
    ELSE {}

ToolMessagesOf(q) ==
    CASE q.stub = "any"         -> HarnessToolMessages
      [] q.stub = "always_tool" -> AlwaysToolMessages
      [] q.stub = "handler"     -> HandlerToolMessages(q)

TextMessagesOf(q) ==
    CASE q.stub = "any"         -> TextMessages
      [] q.stub = "always_tool" -> {}
      [] q.stub = "handler"     -> {[content |-> c, tool_calls |-> <<>>] : c \in {None, Some("Done.")}}

NumAdds(message) ==
    Cardinality({i \in 1..Len(message.tool_calls) : message.tool_calls[i].name = "add_task"})

\* A loop test that lets one iteration too many through
LoopTestOffByOne(q) == q.iterations <= q.max_iterations

\* while iterations < max_iterations
LoopTest(q) == q.iterations < q.max_iterations

\* A return that passes the response's text on as it is
FinalReplyVerbatim(message) ==
    IF message.content # None THEN message.content[1] ELSE ""

\* return message.content or "I apologize, but I couldn't complete your request."
FinalReply(message) ==
    IF Truthy(message.content) THEN message.content[1] ELSE EmptyReply

\* The model answers with text and no tool call: run appends it and returns
AgentText(r) ==
    /\ req[r].pc = "agent"
    /\ LoopTest(req[r])
    /\ \E m \in TextMessagesOf(req[r]) :
         req' = [req EXCEPT ![r] =
                   [@ EXCEPT !.iterations = @ + 1, !.model_calls = @ + 1,
                             !.ctx = Append(@, AssistantEntry(m)),
                             !.reply = Some(FinalReply(m)), !.pc = "returned"]]
    /\ UNCHANGED <<toolVars, chatVars>>

\* The model requests tool calls: run appends the response and starts on them
AgentToolCalls(r) ==
    /\ req[r].pc = "agent"
    /\ LoopTest(req[r])
    /\ \E m \in ToolMessagesOf(req[r]) :
         /\ nextTaskId + NumAdds(m) <= MaxTasks + 1
         /\ req' = [req EXCEPT ![r] =
                      [@ EXCEPT !.iterations = @ + 1, !.model_calls = @ + 1,
                                !.ctx = Append(@, AssistantEntry(m)),
                                !.tool_calls = m.tool_calls, !.next = 1, !.pc = "tools"]]
    /\ UNCHANGED <<toolVars, chatVars>>

\* A run that takes a failed model call as one more pass of its loop
AgentModelErrorRetried(r) ==
    /\ req[r].pc = "agent"
    /\ LoopTest(req[r])
    /\ req[r].stub # "always_tool"
    /\ req' = [req EXCEPT ![r] = [@ EXCEPT !.iterations = @ + 1, !.model_calls = @ + 1]]
    /\ UNCHANGED <<toolVars, chatVars>>

\* client.chat.completions.create raises (or its response cannot be read):
\* run raises Exception("OpenAI API error: ...")
AgentModelError(r) ==
    /\ req[r].pc = "agent"
    /\ LoopTest(req[r])
    /\ req[r].stub # "always_tool"
    /\ req' = [req EXCEPT ![r] =
                 [@ EXCEPT !.iterations = @ + 1, !.model_calls = @ + 1, !.pc = "raised"]]
    /\ UNCHANGED <<toolVars, chatVars>>

\* A loop body that skips the tool calls after the first
NextAfterSkipping(q) == Len(q.tool_calls) + 1

\* for tool_call in message.tool_calls: the index of the call after this one
NextAfter(q) == q.next + 1

\* One pass of the for loop: _execute_tool_call on the next requested call, its
\* result appended as a tool entry; after the last call the while loop goes on
AgentExecuteTool(r) ==
    LET q == req[r]
        tool_call == q.tool_calls[q.next]
        x == execute_tool_call(tool_call, q.user_id)
        after(res) == [q EXCEPT !.ctx = Append(@, ToolEntry(tool_call, res)),
                                !.next = NextAfter(q),
                                !.pc = IF NextAfter(q) > Len(q.tool_calls) THEN "agent" ELSE "tools"]
    IN  /\ q.pc = "tools"
        /\ IF x.dispatch
           THEN /\ \E dbok \in BOOLEAN : Invoke(x.name, x.user_id, x.args, dbok)
                /\ req' = [req EXCEPT ![r] = after(lastCall'.res)]
           ELSE /\ req' = [req EXCEPT ![r] = after(x.res)]
                /\ UNCHANGED <<tasks, nextTaskId, now, lastCall>>
        /\ UNCHANGED <<ops, chatVars>>

\* The budget is used up: run returns the fixed fallback reply
AgentExhausted(r) ==
    /\ req[r].pc = "agent"
    /\ ~LoopTest(req[r])
    /\ req' = [req EXCEPT ![r] = [@ EXCEPT !.reply = Some(FallbackReply), !.pc = "returned"]]
    /\ UNCHANGED <<toolVars, chatVars>>

AgentStep(r) ==
    \/ AgentText(r)
    \/ AgentToolCalls(r)
    \/ AgentModelError(r)
    \/ AgentExecuteTool(r)
    \/ AgentExhausted(r)

(***************************************************************************)
(* run called on its own, as a test harness calls it: any user, any budget  *)
(* up to MaxIter with the free stub, or the default budget with the stub    *)
(* that always requests a tool call; the tasks table holds no task or one.  *)
(***************************************************************************)
RunConfigs ==
    {[n |-> k, stub |-> "any"] : k \in 0..MaxIter}
    \cup {[n |-> DefaultMaxIterations, stub |-> "always_tool"]}

StartRun(r) ==
    /\ req[r].pc = "idle"
    /\ \E u \in Users, c \in RunConfigs :
         req' = [req EXCEPT ![r] =
                   [IdleReq EXCEPT !.pc = "agent", !.caller = "harness", !.stub = c.stub,
                                   !.user_id = u, !.max_iterations = c.n, !.base = 2,
                                   !.ctx = <<Entry("system", Text(SystemPrompt)),
                                             Entry("user", Text("Add a task to buy milk"))>>]]
    /\ UNCHANGED <<toolVars, chatVars>>

AgentInit == ToolInit

AgentNext == StartRun(1) \/ AgentStep(1)

AgentSpec == AgentInit /\ [][AgentNext]_vars

\* run is a coroutine on the event loop: once its awaited model call or tool
\* call has returned, the loop resumes it
FairAgentSpec == AgentSpec /\ WF_vars(AgentStep(1))

(***************************************************************************)
(* The Chat Request Handler (app/routers/chat.py).  The handler's session   *)
(* (get_session) holds its writes until session.commit(); the tools write   *)
(* through sessions of their own.  A message row carries, besides its        *)
(* columns, the number of the request that added it: that field is not a     *)
(* column, it is kept so that properties can speak of a request's rows.      *)
(***************************************************************************)
RequestMessages == {"Add a task to buy milk", "What is on my list?"}
ConversationIds == {None, Some(0), Some(1)}

NotFoundDetail == "Conversation not found or access denied"
UnavailableDetail == "AI service is currently unavailable. Please try again later."
UnexpectedDetail == "An unexpected error occurred. Please try again."

\* session.add(obj) for a Message
SessionAdd(session, row) == [session EXCEPT !.messages = Append(@, row)]

\* A commit that keeps the newest HistoryLimit messages only
CommitKeepsWindow(d, session) ==
    LET known == DOMAIN d.conversations
        created == IF session.conversation = None THEN {} ELSE {session.conversation[1].id}
    IN  [d EXCEPT
           !.conversations =
               [c \in known \cup created |->
                  IF c \in created THEN session.conversation[1]
                  ELSE IF session.touched # None /\ session.touched[1].id = c
                  THEN [d.conversations[c] EXCEPT !.updated_at = session.touched[1].updated_at]
                  ELSE d.conversations[c]],
           !.messages =
               LET all == @ \o [i \in 1..Len(session.messages) |->
                       [id |-> Len(d.messages) + i,
                        conversation_id |-> session.messages[i].conversation_id,
                        role |-> session.messages[i].role,
                        content |-> session.messages[i].content,
                        created_at |-> session.messages[i].created_at,
                        request |-> session.messages[i].request]]
               IN  IF Len(all) <= HistoryLimit THEN all
                   ELSE SubSeq(all, Len(all) - HistoryLimit + 1, Len(all))]

\* What session.commit() makes of the store: the conversation inserted by the
\* flush and the new updated_at become visible, the added messages are inserted
\* in the order they were added and get the next ids
CommitSession(d, session) ==
    LET known == DOMAIN d.conversations
        created == IF session.conversation = None THEN {} ELSE {session.conversation[1].id}
    IN  [d EXCEPT
           !.conversations =
               [c \in known \cup created |->
                  IF c \in created THEN session.conversation[1]
                  ELSE IF session.touched # None /\ session.touched[1].id = c
                  THEN [d.conversations[c] EXCEPT !.updated_at = session.touched[1].updated_at]
                  ELSE d.conversations[c]],
           !.messages =
               @ \o [i \in 1..Len(session.messages) |->
                       [id |-> Len(d.messages) + i,
                        conversation_id |-> session.messages[i].conversation_id,
                        role |-> session.messages[i].role,
                        content |-> session.messages[i].content,
                        created_at |-> session.messages[i].created_at,
                        request |-> session.messages[i].request]]]

\* A store_message that commits what the session holds as soon as it has added
StoreAndCommit(d, session, conversation_id, role, content, t, number) ==
    [db |-> CommitSession(d, SessionAdd(session,
                [conversation_id |-> conversation_id, role |-> role, content |-> content,
                 created_at |-> t, request |-> number])),
     session |-> NoSession]

\* store_message: a Message is built and added to the session; nothing is
\* flushed or committed
store_message(d, session, conversation_id, role, content, t, number) ==
    [db |-> d,
     session |-> SessionAdd(session,
                [conversation_id |-> conversation_id, role |-> role, content |-> content,
                 created_at |-> t, request |-> number])]

\* A session whose close commits what it holds
CloseCommits(d, session) == CommitSession(d, session)

\* get_session: leaving `async with async_session_maker()` closes the session,
\* and what it holds uncommitted is discarded
CloseSession(d, session) == d

\* A rollback that lets the pending writes through
RollbackKeeps(d, session) == CommitSession(d, session)

\* await session.rollback(), then the close of get_session
Rollback(d, session) == CloseSession(d, session)

Min(a, b) == IF a <= b THEN a ELSE b

Reversed(s) == [i \in 1..Len(s) |-> s[Len(s) + 1 - i]]

\* A query without its WHERE clause: the rows of every conversation
RowsOfAnyConversation(messages, conversation_id) == 1..Len(messages)

\* The indices of the rows of one conversation
RowsOf(messages, conversation_id) ==
    {i \in 1..Len(messages) : messages[i].conversation_id = conversation_id}

\* ORDER BY created_at DESC: every order of the rows that is descending in
\* created_at (rows with equal created_at may come in either order)
RECURSIVE DescendingFrom(_, _)
DescendingFrom(messages, rows) ==
    IF rows = {} THEN {<<>>}
    ELSE LET newest == {i \in rows :
                          \A j \in rows : messages[i].created_at >= messages[j].created_at}
         IN  UNION {{<<i>> \o rest : rest \in DescendingFrom(messages, rows \ {i})} :
                      i \in newest}

Descending(messages, conversation_id) ==
    DescendingFrom(messages, RowsOf(messages, conversation_id))

\* A get_conversation_messages that returns the rows as the query gave them
NewestFirst(messages, conversation_id, limit) ==
    {[i \in 1..Min(limit, Len(f)) |-> messages[f[i]]] :
        f \in Descending(messages, conversation_id)}

\* get_conversation_messages: the `limit` newest rows, oldest first
get_conversation_messages(messages, conversation_id, limit) ==
    {Reversed([i \in 1..Min(limit, Len(f)) |-> messages[f[i]]]) :
        f \in Descending(messages, conversation_id)}

\* A message array that takes the new message twice: from the history read
\* after the message was stored, and as the new entry
MessageArrayRepeatingMessage(history, message) ==
    <<Entry("system", Text(SystemPrompt))>>
    \o [i \in 1..Len(history) |-> Entry(history[i].role, Text(history[i].content))]
    \o <<Entry("user", Text(message)), Entry("user", Text(message))>>

\* STEP 5: the system prompt, the history, the new user message
MessageArray(history, message) ==
    <<Entry("system", Text(SystemPrompt))>>
    \o [i \in 1..Len(history) |-> Entry(history[i].role, Text(history[i].content))]
    \o <<Entry("user", Text(message))>>

\* if conversation_id: (None and 0 are false)
TruthyId(o) == IF o = None THEN FALSE ELSE o[1] # 0

Active == {r \in Reqs : req[r].pc # "idle"}

\* A handler that keeps the message array of the request it has answered
RespondKeepsContext(r, status, detail, conversation, response) ==
    /\ lastCall' = NoCall
    /\ served' = Append(served,
                   [number |-> req[r].number, user_id |-> req[r].user_id,
                    message |-> req[r].message, conversation_id |-> req[r].conversation_id,
                    status |-> status, detail |-> detail,
                    conversation |-> conversation, response |-> response])
    /\ req' = [req EXCEPT ![r] = [IdleReq EXCEPT !.ctx = req[r].ctx, !.history = req[r].history]]

\* The response goes out and the handler instance is free again: its locals,
\* the result of the last tool call among them, are gone
Respond(r, status, detail, conversation, response) ==
    /\ lastCall' = NoCall
    /\ served' = Append(served,
                   [number |-> req[r].number, user_id |-> req[r].user_id,
                    message |-> req[r].message, conversation_id |-> req[r].conversation_id,
                    status |-> status, detail |-> detail,
                    conversation |-> conversation, response |-> response])
    /\ req' = [req EXCEPT ![r] = IdleReq]

\* POST /api/chat/message with a valid token and body arrives
StartRequest(r) ==
    /\ req[r].pc = "idle"
    /\ Len(served) + Cardinality(Active) < MaxRequests
    /\ \E u \in Users, c \in ConversationIds, m \in RequestMessages :
         req' = [req EXCEPT ![r] =
                   [IdleReq EXCEPT !.pc = "resolve", !.caller = "handler", !.stub = "handler",
                                   !.user_id = u, !.conversation_id = c, !.message = m,
                                   !.number = Len(served) + Cardinality(Active) + 1]]
    /\ UNCHANGED <<toolVars, chatVars>>

\* STEP 2, get_or_create_conversation with an id that is set and not 0: the
\* caller's conversation is found and gets a new updated_at in the session
ResolveExisting(r) ==
    LET q == req[r] IN
    /\ q.pc = "resolve"
    /\ TruthyId(q.conversation_id)
    /\ q.conversation_id[1] \in DOMAIN db.conversations
    /\ db.conversations[q.conversation_id[1]].user_id = q.user_id
    /\ req' = [req EXCEPT ![r] =
                 [q EXCEPT !.conversation = q.conversation_id,
                           !.session.touched = Some([id |-> q.conversation_id[1], updated_at |-> now]),
                           !.pc = "history"]]
    /\ UNCHANGED <<toolVars, chatVars>>

\* ... no conversation with that id belongs to the caller: 404
ResolveNotFound(r) ==
    LET q == req[r] IN
    /\ q.pc = "resolve"
    /\ TruthyId(q.conversation_id)
    /\ ~(/\ q.conversation_id[1] \in DOMAIN db.conversations
         /\ db.conversations[q.conversation_id[1]].user_id = q.user_id)
    /\ db' = CloseSession(db, q.session)
    /\ Respond(r, 404, NotFoundDetail, None, None)
    /\ UNCHANGED <<tasks, nextTaskId, now, ops>>

\* ... no id, or the id 0: a conversation is added and flushed, which takes
\* the next id of the sequence; the row stays in the session's transaction
ResolveCreate(r) ==
    LET q == req[r] IN
    /\ q.pc = "resolve"
    /\ ~TruthyId(q.conversation_id)
    /\ req' = [req EXCEPT ![r] =
                 [q EXCEPT !.conversation = Some(db.nextConvId),
                           !.session.conversation =
                               Some([id |-> db.nextConvId, user_id |-> q.user_id,
                                     title |-> "New Conversation", created_at |-> now,
                                     updated_at |-> now, is_active |-> TRUE]),
                           !.pc = "history"]]
    /\ db' = [db EXCEPT !.nextConvId = @ + 1]
    /\ UNCHANGED <<toolVars, served>>

\* STEPS 3 to 5: the history is read from the store, the user message is added
\* to the session, the message array is built and agent.run is entered
FetchHistory(r) ==
    LET q == req[r] IN
    /\ q.pc = "history"
    /\ \E history \in get_conversation_messages(db.messages, q.conversation[1], HistoryLimit) :
       \E t \in {now, now + 1} :
         LET stored == store_message(db, q.session, q.conversation[1], "user", q.message, t, q.number)
         IN  /\ now' = t
             /\ db' = stored.db
             /\ req' = [req EXCEPT ![r] =
                          [q EXCEPT !.history = history,
                                    !.session = stored.session,
                                    !.ctx = MessageArray(history, q.message),
                                    !.base = Len(history) + 2,
                                    !.max_iterations = HandlerMaxIterations,
                                    !.pc = "agent"]]
    /\ UNCHANGED <<tasks, nextTaskId, lastCall, ops, served>>

\* A statement of step 2 or 3 raises (or get_agent() does): except Exception,
\* session.rollback(), 500
StorageError(r) ==
    /\ req[r].pc \in {"resolve", "history"}
    /\ db' = Rollback(db, req[r].session)
    /\ Respond(r, 500, UnexpectedDetail, None, None)
    /\ UNCHANGED <<tasks, nextTaskId, now, ops>>

\* A failure of agent.run that takes the tasks table back with the request,
\* as if the tools had written through the request's session
AgentUnavailableUndoes(r) ==
    /\ req[r].caller = "handler"
    /\ req[r].pc = "raised"
    /\ db' = CloseSession(db, req[r].session)
    /\ Respond(r, 500, UnavailableDetail, None, None)
    /\ tasks' = <<>>
    /\ UNCHANGED <<nextTaskId, now, ops>>

\* agent.run raised: HTTPException 500, re-raised by `except HTTPException`;
\* the session is closed by get_session without a commit
AgentUnavailable(r) ==
    /\ req[r].caller = "handler"
    /\ req[r].pc = "raised"
    /\ db' = CloseSession(db, req[r].session)
    /\ Respond(r, 500, UnavailableDetail, None, None)
    /\ UNCHANGED <<tasks, nextTaskId, now, ops>>

\* STEPS 7 to 9: the reply is added to the session, session.commit() makes the
\* request's writes durable, and the response is returned
Commit(r) ==
    LET q == req[r] IN
    /\ q.caller = "handler"
    /\ q.pc = "returned"
    /\ \E t \in {now, now + 1} :
         LET stored == store_message(db, q.session, q.conversation[1], "assistant",
                                     q.reply[1], t, q.number)
         IN  /\ now' = t
             /\ db' = CommitSession(stored.db, stored.session)
    /\ Respond(r, 200, "", q.conversation, q.reply)
    /\ UNCHANGED <<tasks, nextTaskId, ops>>

\* STEP 8 raises: except Exception, session.rollback(), 500
CommitFails(r) ==
    LET q == req[r] IN
    /\ q.caller = "handler"
    /\ q.pc = "returned"
    /\ \E t \in {now, now + 1} :
         LET stored == store_message(db, q.session, q.conversation[1], "assistant",
                                     q.reply[1], t, q.number)
         IN  /\ now' = t
             /\ db' = Rollback(stored.db, stored.session)
    /\ Respond(r, 500, UnexpectedDetail, None, None)
    /\ UNCHANGED <<tasks, nextTaskId, ops>>

\* The store after one earlier request of alice that the model answered with
\* "Done.": her conversation 1 with its two messages (request number 0)
SeededDb ==
    [conversations |->
        <<[id |-> 1, user_id |-> "alice", title |-> "New Conversation",
           created_at |-> 0, updated_at |-> 0, is_active |-> TRUE]>>,
     messages |->
        <<[id |-> 1, conversation_id |-> 1, role |-> "user",
           content |-> "Add a task to buy milk", created_at |-> 0, request |-> 0],
          [id |-> 2, conversation_id |-> 1, role |-> "assistant",
           content |-> "Done.", created_at |-> 1, request |-> 0]>>,
     nextConvId |-> 2]

\* The store after eleven earlier requests of alice on her conversation 1:
\* two messages more than the handler loads as history
LongDb ==
    [conversations |->
        <<[id |-> 1, user_id |-> "alice", title |-> "New Conversation",
           created_at |-> 0, updated_at |-> HistoryLimit, is_active |-> TRUE]>>,
     messages |->
        [i \in 1..(HistoryLimit + 2) |->
           [id |-> i, conversation_id |-> 1,
            role |-> IF i % 2 = 1 THEN "user" ELSE "assistant",
            content |-> IF i % 2 = 1 THEN "What is on my list?" ELSE "Done.",
            created_at |-> i - 1, request |-> 0]],
     nextConvId |-> 2]

\* The service starts on an empty store or on one that holds a conversation
Init ==
    /\ tasks = <<>>
    /\ nextTaskId = 1
    /\ db \in {EmptyDb, SeededDb, LongDb}
    /\ now = IF db.messages = <<>> THEN 0 ELSE db.messages[Len(db.messages)].created_at
    /\ lastCall = NoCall
    /\ ops = 0
    /\ req = [r \in Reqs |-> IdleReq]
    /\ served = <<>>

Next ==
    \/ StartRequest(1)
    \/ ResolveExisting(1)
    \/ ResolveNotFound(1)
    \/ ResolveCreate(1)
    \/ FetchHistory(1)
    \/ StorageError(1)
    \/ AgentStep(1)
    \/ AgentUnavailable(1)
    \/ Commit(1)
    \/ CommitFails(1)

Spec == Init /\ [][Next]_vars

(***************************************************************************)
(* The message store on its own: the writes a successful request commits   *)
(* (its user message and its reply, chat.py STEPS 4, 7 and 8) and          *)
(* get_conversation_messages called with any limit, one call after the     *)
(* other.  lastCall records the fetch: its arguments, its result and the   *)
(* rows it ran on.                                                          *)
(***************************************************************************)
TwoConversations ==
    [conversations |->
        [c \in 1..2 |-> [id |-> c, user_id |-> "alice", title |-> "New Conversation",
                         created_at |-> 0, updated_at |-> 0, is_active |-> TRUE]],
     messages |-> <<>>,
     nextConvId |-> 3]

HistoryInit ==
    /\ tasks = <<>>
    /\ nextTaskId = 1
    /\ db = TwoConversations
    /\ now = 0
    /\ lastCall = NoCall
    /\ ops = 0
    /\ req = [r \in Reqs |-> IdleReq]
    /\ served = <<>>

\* store_message("user"), store_message("assistant") and session.commit() of
\* one request on conversation c; each store_message reads the clock
HistoryExchange(c) ==
    /\ lastCall.name = NoCall.name
    /\ ops < MaxExchanges
    /\ \E m \in RequestMessages, reply \in {"Done."} :
       \E t1 \in {now, now + 1} : \E t2 \in {t1, t1 + 1} :
         LET first == store_message(db, NoSession, c, "user", m, t1, ops + 1)
             second == store_message(first.db, first.session, c, "assistant", reply, t2, ops + 1)
         IN  /\ db' = CommitSession(second.db, second.session)
             /\ now' = t2
    /\ ops' = ops + 1
    /\ UNCHANGED <<tasks, nextTaskId, lastCall, req, served>>

\* get_conversation_messages(session, c, limit)
HistoryFetch(c) ==
    /\ lastCall.name = NoCall.name
    /\ \E limit \in 0..MaxFetchLimit :
       \E result \in get_conversation_messages(db.messages, c, limit) :
         lastCall' = [name |-> "get_conversation_messages", user_id |-> "",
                      args |-> [conversation_id |-> c, limit |-> limit],
                      res |-> result, before |-> db.messages]
    /\ UNCHANGED <<tasks, nextTaskId, now, ops, req, db, served>>

\* The caller is done with the rows it fetched
HistoryReturn ==
    /\ lastCall.name # NoCall.name
    /\ lastCall' = NoCall
    /\ UNCHANGED <<tasks, nextTaskId, now, ops, req, db, served>>

HistoryNext ==
    \/ \E c \in DOMAIN TwoConversations.conversations : HistoryExchange(c)
    \/ \E c \in DOMAIN TwoConversations.conversations : HistoryFetch(c)
    \/ HistoryReturn

HistorySpec == HistoryInit /\ [][HistoryNext]_vars

(***************************************************************************)
(* Properties of the Tool Registry, checked under ToolSpec                 *)
(***************************************************************************)
OwnerScopedTools == {"update_task", "complete_task", "delete_task"}

\* The call names a task that exists in the table it ran on
TargetExisted(c) ==
    c.name \in OwnerScopedTools /\ c.args.task_id[1] \in DOMAIN c.before

\* ... and that task belonged to another user than the caller
CrossUser(c) ==
    TargetExisted(c) /\ c.before[c.args.task_id[1]].user_id # c.user_id

\* C1: a call of update_task, complete_task or delete_task by a user B on a
\* task T owned by another user A returns success = false, and T is still in
\* the table with every column as it was before the call.
C1_CrossUserCallsFailAndChangeNothing ==
    CrossUser(lastCall) =>
        /\ lastCall.res.success = FALSE
        /\ lastCall.args.task_id[1] \in DOMAIN tasks
        /\ tasks[lastCall.args.task_id[1]] = lastCall.before[lastCall.args.task_id[1]]

C1_Witness ==
    /\ CrossUser(lastCall)
    /\ lastCall.name = "update_task"
    /\ lastCall.args.status = Some("done")
    /\ lastCall.res = NotFound

\* C3: every row in the data of a successful list_tasks(U, ...) is a task of
\* the table that U owns, whatever filters and limit were passed.
C3_ListReturnsOnlyOwnTasks ==
    (lastCall.name = "list_tasks" /\ lastCall.res.success) =>
        \A k \in 1..Len(lastCall.res.data) :
            /\ lastCall.res.data[k].id \in DOMAIN tasks
            /\ tasks[lastCall.res.data[k].id].user_id = lastCall.user_id

C3_Witness ==
    /\ lastCall.name = "list_tasks"
    /\ lastCall.res.success
    /\ Len(lastCall.res.data) = 1
    /\ \E i \in DOMAIN tasks : tasks[i].user_id # lastCall.user_id

\* The table as the caller may see it: the rows of other users removed
OwnView(store, user_id) ==
    [i \in {j \in DOMAIN store : store[j].user_id = user_id} |-> store[i]]

\* Every dict the call c can return when it runs on the table store
ResultsOn(store, c) ==
    UNION {{o.res : o \in tool_functions(c.name, store, c.user_id, c.args, nextTaskId, t, dbok)} :
             t \in {now, now + 1}, dbok \in BOOLEAN}

StorageFailures ==
    {Failure("Failed to update task: database error"),
     Failure("Failed to complete task: database error"),
     Failure("Failed to delete task: database error")}

PassesValidation(c) == c.name = "update_task" => UpdateValidation(c.args) = None

\* C4 as stated: for any arguments, a call that names a task of another user
\* returns exactly {success: false, error: "Task not found or access denied"}
\* (a storage error aside).
C4_MissIsAlwaysNotFound ==
    (CrossUser(lastCall) /\ lastCall.res \notin StorageFailures)
        => lastCall.res = NotFound

\* C4 (amended): for update_task, complete_task and delete_task the results a
\* caller can get do not depend on the rows of other users: they are the same on
\* the table and on the table without those rows, so an id of another user's task
\* answers as an unknown id does.  That answer is "Task not found or access
\* denied" when the arguments pass the tool's validation and the store raises
\* no error; arguments that fail update_task's validation get the validation
\* error in both cases.
C4_MissIsIndistinguishable ==
    lastCall.name \in OwnerScopedTools =>
        /\ ResultsOn(lastCall.before, lastCall)
             = ResultsOn(OwnView(lastCall.before, lastCall.user_id), lastCall)
        /\ (/\ OwnedLookup(lastCall.before, lastCall.user_id, lastCall.args.task_id[1]) = None
            /\ lastCall.res \notin StorageFailures)
              => lastCall.res = IF PassesValidation(lastCall) THEN NotFound
                                ELSE Failure(UpdateValidation(lastCall.args)[1])

C4_Witness ==
    /\ CrossUser(lastCall)
    /\ lastCall.name = "delete_task"
    /\ lastCall.res = NotFound
    /\ \E i \in TaskIdInputs : i \notin DOMAIN lastCall.before

(***************************************************************************)
(* Properties of the Agent Loop, checked under AgentSpec and FairAgentSpec  *)
(***************************************************************************)
\* The entries run has appended to the messages it was given
Appended(q) == (q.base + 1)..Len(q.ctx)

RequestsTools(e) == e.role = "assistant" /\ e.tool_calls # None
TerminalText(e) == e.role = "assistant" /\ e.tool_calls = None

\* The requested call run executed last, and what _execute_tool_call did with it
HasExecuted(q) == q.pc # "idle" /\ q.next > 1 /\ q.tool_calls # <<>>
LastExecuted(q) == q.tool_calls[q.next - 1]
LastDispatch(q) == execute_tool_call(LastExecuted(q), q.user_id)

ChangedRows(c) ==
    {i \in DOMAIN tasks : i \notin DOMAIN c.before \/ tasks[i] # c.before[i]}
DeletedRows(c) == DOMAIN c.before \ DOMAIN tasks

\* C2: whatever user_id the payload of a requested tool call carries (none, or
\* another user's), the tool function is called with the user_id run was given,
\* and every row that call created, changed or deleted belongs to that user.
C2_DispatchUsesAuthenticatedUser ==
    \A r \in Reqs :
        (HasExecuted(req[r]) /\ LastDispatch(req[r]).dispatch) =>
            /\ lastCall.name = LastExecuted(req[r]).name
            /\ lastCall.user_id = req[r].user_id
            /\ \A i \in ChangedRows(lastCall) : tasks[i].user_id = req[r].user_id
            /\ \A i \in DeletedRows(lastCall) : lastCall.before[i].user_id = req[r].user_id

C2_Witness ==
    /\ HasExecuted(req[1])
    /\ req[1].user_id = "alice"
    /\ LastExecuted(req[1]).name = "add_task"
    /\ LastExecuted(req[1]).arguments.dict.user_id = Some("bob")
    /\ lastCall.res.success
    /\ \E i \in ChangedRows(lastCall) : tasks[i].user_id = "alice"

Finished(q) == q.pc \in {"returned", "raised"}

\* C8: run makes at most max_iterations model calls and, once started, returns
\* or raises; a run in which every response requested a tool call returns after
\* exactly max_iterations model calls with the fixed fallback reply.
C8_RunIsBoundedAndTerminates ==
    /\ [](\A r \in Reqs :
            /\ req[r].model_calls <= req[r].max_iterations
            /\ (/\ req[r].pc = "returned"
                /\ \A i \in Appended(req[r]) : ~TerminalText(req[r].ctx[i]))
                 => /\ req[r].model_calls = req[r].max_iterations
                    /\ req[r].reply = Some(FallbackReply))
    /\ (req[1].pc = "agent") ~> Finished(req[1])

C8_Witness ==
    /\ req[1].pc = "returned"
    /\ req[1].stub = "always_tool"
    /\ req[1].max_iterations = DefaultMaxIterations
    /\ req[1].model_calls = 5
    /\ req[1].reply = Some(FallbackReply)

NumResponses(q) ==
    Cardinality({i \in Appended(q) : q.ctx[i].role = "assistant"})

\* What holds of every response without tool calls, whatever run returns for it:
\* it is the last entry, run has returned, and no model call came after it
EndsTheLoop(q, i) ==
    /\ i = Len(q.ctx)
    /\ q.reply # None
    /\ q.pc # "agent" /\ q.pc # "tools"
    /\ q.model_calls = NumResponses(q)

\* C9 as stated: a response without tool calls ends the loop and run returns
\* that response's text.
C9_ReturnsTheResponseText ==
    \A r \in Reqs : \A i \in Appended(req[r]) :
        TerminalText(req[r].ctx[i]) =>
            /\ EndsTheLoop(req[r], i)
            /\ req[r].reply = Some(req[r].ctx[i].content.text)

\* C9 (amended): a response without tool calls ends the loop, no model call and
\* no tool call follows it, and run returns the response's text when that text
\* is not empty and the fixed reply "I apologize, but I couldn't complete your
\* request." when the response has no text.
C9_ReturnsTextOrApology ==
    \A r \in Reqs : \A i \in Appended(req[r]) :
        TerminalText(req[r].ctx[i]) =>
            /\ EndsTheLoop(req[r], i)
            /\ req[r].reply = Some(IF req[r].ctx[i].content.text # ""
                                   THEN req[r].ctx[i].content.text ELSE EmptyReply)

C9_Witness ==
    /\ req[1].pc = "returned"
    /\ Len(req[1].ctx) > req[1].base + 1
    /\ TerminalText(req[1].ctx[Len(req[1].ctx)])
    /\ req[1].ctx[Len(req[1].ctx)].content.text = ""
    /\ req[1].reply = Some(EmptyReply)

\* The number of calls of the tool request at entry i that have been executed
Executed(q, i) ==
    IF q.pc = "tools" /\ \A j \in Appended(q) : RequestsTools(q.ctx[j]) => j <= i
    THEN q.next - 1
    ELSE Len(q.ctx[i].tool_calls[1])

\* C10: a response that requests k tool calls is appended as one assistant entry
\* and followed by one tool entry per call, in the order requested, each with
\* its call's id and the serialized result of that call; all k are there before
\* the next response, and after the k-th the loop goes on: run has not returned,
\* and returns without a further response only when the budget is used up.
C10_ToolEntriesFollowTheirRequest ==
    \A r \in Reqs :
      LET q == req[r]
          n == Len(q.ctx)
      IN  /\ \A i \in Appended(q) :
                RequestsTools(q.ctx[i]) =>
                  LET calls == q.ctx[i].tool_calls[1]
                      done == Executed(q, i)
                  IN  /\ n >= i + done
                      /\ \A j \in 1..done :
                            /\ q.ctx[i + j].role = "tool"
                            /\ q.ctx[i + j].tool_call_id = Some(calls[j].id)
                      /\ n > i + done => /\ done = Len(calls)
                                         /\ q.ctx[i + done + 1].role = "assistant"
          /\ (n > q.base /\ q.ctx[n].role = "tool") =>
                /\ q.ctx[n].content
                     = JsonDumps(IF LastDispatch(q).dispatch THEN lastCall.res
                                 ELSE LastDispatch(q).res)
                /\ LastDispatch(q).dispatch =>
                     /\ lastCall.name = LastExecuted(q).name
                     /\ lastCall.args = LastDispatch(q).args
                /\ q.pc \in {"tools", "agent"} => q.reply = None
                /\ q.pc = "agent" => (LoopTest(q) <=> ~ENABLED AgentExhausted(r))
                /\ q.pc = "returned" => /\ q.iterations = q.max_iterations
                                        /\ q.reply = Some(FallbackReply)

C10_Witness ==
    \E i \in Appended(req[1]) :
        /\ Len(req[1].ctx) >= i + 3
        /\ RequestsTools(req[1].ctx[i])
        /\ Len(req[1].ctx[i].tool_calls[1]) = 2
        /\ req[1].ctx[i + 1].tool_call_id = Some("call_2")
        /\ req[1].ctx[i + 1].content.json[1].success
        /\ req[1].ctx[i + 2].tool_call_id = Some("call_1")
        /\ req[1].ctx[i + 2].content.json[1].success
        /\ RequestsTools(req[1].ctx[i + 3])

\* The result a tool entry carries
ResultOf(e) == e.content.json[1]

\* A structured failure: success is false and the error text is not empty
StructuredFailure(res) ==
    /\ res.success = FALSE
    /\ res.error # None
    /\ res.error[1] # ""

\* C11: whatever goes wrong with a requested tool call (a payload that is not
\* JSON, a name or a set of arguments no tool accepts, arguments that fail
\* validation, a task that is not found, a storage error in the tool), run gets
\* a dict with success = false and a non-empty error, appends it as the tool
\* entry of that call and goes on: run raises only when a model call failed.
C11_ToolFailuresAreStructuredResults ==
    \A r \in Reqs :
      LET q == req[r] IN
        /\ \A i \in Appended(q) :
              q.ctx[i].role = "tool" =>
                /\ q.ctx[i].content.json # None
                /\ ResultOf(q.ctx[i]).success \/ StructuredFailure(ResultOf(q.ctx[i]))
        /\ (HasExecuted(q) /\ ~LastDispatch(q).dispatch) =>
              \E i \in Appended(q) :
                  /\ q.ctx[i].role = "tool"
                  /\ ResultOf(q.ctx[i]) = LastDispatch(q).res
                  /\ StructuredFailure(ResultOf(q.ctx[i]))
        /\ (Len(q.ctx) > q.base /\ q.ctx[Len(q.ctx)].role = "tool") =>
              \/ q.pc \in {"tools", "agent"}
              \/ q.pc = "returned" /\ q.reply = Some(FallbackReply)
              \/ q.pc = "raised" /\ q.model_calls = NumResponses(q) + 1
        /\ q.pc = "raised" => q.model_calls = NumResponses(q) + 1

C11_Witness ==
    \E i, j \in Appended(req[1]) :
        /\ i < j
        /\ req[1].ctx[i].role = "tool"
        /\ ResultOf(req[1].ctx[i]) = Failure("Failed to complete task: database error")
        /\ req[1].ctx[j].role = "tool"
        /\ ResultOf(req[1].ctx[j]) = Failure("Title is required and must be 200 characters or less")
        /\ req[1].pc = "returned"

(***************************************************************************)
(* Properties of the Chat Request Handler, checked under Spec               *)
(***************************************************************************)
\* The committed message rows that request number n added
RowsOfRequest(n) == {i \in 1..Len(db.messages) : db.messages[i].request = n}

\* The request was answered with the failure the handler raises when agent.run
\* raised
AgentFailed(e) == e.status = 500 /\ e.detail = UnavailableDetail

\* The handler has called agent.run and has not committed yet
InAgent(q) == q.caller = "handler" /\ q.pc \in {"agent", "tools", "returned", "raised"}

\* The session holds the request's user message and no other message
UserMessageBuffered(q) ==
    /\ Len(q.session.messages) = 1
    /\ q.session.messages[1].role = "user"
    /\ q.session.messages[1].content = q.message
    /\ q.session.messages[1].conversation_id = q.conversation[1]

IsPairOf(i, e) ==
    /\ i + 1 <= Len(db.messages)
    /\ db.messages[i].role = "user"
    /\ db.messages[i].content = e.message
    /\ db.messages[i].conversation_id = e.conversation[1]
    /\ db.messages[i + 1].role = "assistant"
    /\ db.messages[i + 1].content = e.response[1]
    /\ db.messages[i + 1].conversation_id = e.conversation[1]

OwnsNamed(user_id, conversation_id) ==
    IF conversation_id = None THEN FALSE
    ELSE /\ conversation_id[1] \in DOMAIN db.conversations
         /\ db.conversations[conversation_id[1]].user_id = user_id

\* C13: a request that supplies a conversation_id (0 included) under which the
\* caller owns no conversation never gets past the lookup: no session write,
\* no model call, and its answer is a failure, 404 "Conversation not found or
\* access denied" unless the lookup itself failed, with no message of the
\* request and no conversation in the store.
C13_EveryMissIsNotFound ==
    /\ \A r \in Reqs : LET q == req[r] IN
         (q.pc # "idle" /\ q.conversation_id # None
            /\ ~OwnsNamed(q.user_id, q.conversation_id)) =>
              /\ q.pc = "resolve"
              /\ q.session = NoSession
              /\ q.model_calls = 0
    /\ \A k \in 1..Len(served) : LET e == served[k] IN
         (e.conversation_id # None /\ ~OwnsNamed(e.user_id, e.conversation_id)) =>
              /\ e.status \in {404, 500}
              /\ e.status = 404 => e.detail = NotFoundDetail
              /\ e.status = 500 => e.detail = UnexpectedDetail
              /\ e.conversation = None
              /\ RowsOfRequest(e.number) = {}

\* A request that supplied conversation_id 0 was answered 200 with a new
\* conversation of the caller and its two messages
C13_Witness ==
    \E k \in 1..Len(served) : LET e == served[k] IN
       /\ e.conversation_id = Some(0)
       /\ e.status = 200
       /\ e.conversation # None
       /\ e.conversation[1] \in DOMAIN db.conversations
       /\ db.conversations[e.conversation[1]].user_id = e.user_id
       /\ Cardinality(RowsOfRequest(e.number)) = 2

\* The conversations a step adds to the store
CreatedByStep == DOMAIN db'.conversations \ DOMAIN db.conversations

\* The step answers a request with 200
AnswersOk == served' # served /\ served'[Len(served')].status = 200

\* C14: a step never removes a conversation or changes its owner; the answer
\* 200 to a request without conversation_id adds exactly one conversation, of
\* the caller, whose id the answer carries; the answer 200 to a request with a
\* conversation_id adds none, the id names a conversation of the caller and the
\* answer carries that id; no other step adds a conversation.
C14_OnlyIdlessRequestsCreate ==
    [][/\ DOMAIN db.conversations \subseteq DOMAIN db'.conversations
       /\ \A c \in DOMAIN db.conversations :
             db'.conversations[c].user_id = db.conversations[c].user_id
       /\ ~AnswersOk => CreatedByStep = {}
       /\ AnswersOk =>
            LET e == served'[Len(served')] IN
            IF e.conversation_id = None
            THEN /\ e.conversation # None
                 /\ CreatedByStep = {e.conversation[1]}
                 /\ db'.conversations[e.conversation[1]].user_id = e.user_id
            ELSE /\ CreatedByStep = {}
                 /\ OwnsNamed(e.user_id, e.conversation_id)
                 /\ e.conversation = e.conversation_id]_vars

\* bob's request with conversation_id 0 was answered 200 with conversation 2,
\* which is his and stands in the store next to alice's conversation 1
C14_Witness ==
    /\ DOMAIN db.conversations = {1, 2}
    /\ db.conversations[1].user_id = "alice"
    /\ db.conversations[2].user_id = "bob"
    /\ Len(served) = 1
    /\ served[1].status = 200
    /\ served[1].user_id = "bob"
    /\ served[1].conversation_id = Some(0)
    /\ served[1].conversation = Some(2)

(***************************************************************************)
(* Properties of history retrieval                                         *)
(***************************************************************************)
Fetched == lastCall.name = "get_conversation_messages"

\* The rows of the fetched conversation in the order they were inserted
FullHistory ==
    SelectSeq(lastCall.before,
              LAMBDA row : row.conversation_id = lastCall.args.conversation_id)

StrictlyIncreasing(rows) ==
    \A i, j \in 1..Len(rows) : i < j => rows[i].created_at < rows[j].created_at

\* C15: when the N messages of the conversation have strictly increasing
\* timestamps, get_conversation_messages with limit K < N returns the last K
\* messages of the full history, oldest first, and with K >= N the full
\* history; a fetch whose limit is the size of the table is that full history.
C15_LastKInAscendingOrder ==
    (Fetched /\ StrictlyIncreasing(FullHistory)) =>
        LET N == Len(FullHistory)
            K == lastCall.args.limit
        IN  /\ get_conversation_messages(lastCall.before, lastCall.args.conversation_id,
                                         Len(lastCall.before)) = {FullHistory}
            /\ K < N => lastCall.res = SubSeq(FullHistory, N - K + 1, N)
            /\ K >= N => lastCall.res = FullHistory
            /\ StrictlyIncreasing(lastCall.res)

\* Four messages with increasing timestamps, fetched with limit 2 and with
\* limit 3: the result is the tail of that length
C15_Witness ==
    /\ Fetched
    /\ Len(FullHistory) = 4
    /\ StrictlyIncreasing(FullHistory)
    /\ lastCall.args.limit = 3
    /\ Len(lastCall.res) = 3
    /\ lastCall.res[1].role = "assistant"
    /\ lastCall.res[1].request = 1

\* The history a request in progress has loaded
Loaded(q) == q.caller = "handler" /\ q.pc \in {"agent", "tools", "returned", "raised"}

\* C16: in the history a request has loaded, two messages with the same
\* created_at stand in the order they were inserted (the order of their ids),
\* and the user message of an earlier request stands before the reply of that
\* request.
C16_TiesKeepInsertionOrder ==
    \A r \in Reqs : LET h == req[r].history IN
      Loaded(req[r]) =>
        \A i, j \in 1..Len(h) :
           /\ (i < j /\ h[i].created_at = h[j].created_at) => h[i].id < h[j].id
           /\ (h[i].request = h[j].request /\ h[i].role = "user"
                 /\ h[j].role = "assistant") => i < j

\* The loaded history holds the reply of the earlier request before the user
\* message that it answers; both carry the same created_at
C16_Witness ==
    /\ Loaded(req[1])
    /\ Len(req[1].history) = 2
    /\ req[1].history[1].role = "assistant"
    /\ req[1].history[2].role = "user"
    /\ req[1].history[1].request = req[1].history[2].request
    /\ req[1].history[1].created_at = req[1].history[2].created_at
    /\ req[1].history[1].id = 2
    /\ req[1].history[2].id = 1

\* C17: the history a request has loaded consists of rows of the store that
\* carry the id of the request's conversation, and the working context handed
\* to the agent is the system prompt, exactly those rows and the new user
\* message: no row stored under another conversation is in either.
C17_HistoryIsOfOneConversation ==
    \A r \in Reqs : LET q == req[r] IN
      Loaded(q) =>
        /\ \A i \in 1..Len(q.history) :
              /\ q.history[i].conversation_id = q.conversation[1]
              /\ \E k \in 1..Len(db.messages) : db.messages[k] = q.history[i]
        /\ q.base = Len(q.history) + 2
        /\ Len(q.ctx) >= q.base
        /\ \A i \in 1..Len(q.history) :
              /\ q.ctx[i + 1].role = q.history[i].role
              /\ q.ctx[i + 1].content = Text(q.history[i].content)
        /\ q.ctx[q.base] = Entry("user", Text(q.message))

\* A request on conversation 1 has loaded its two messages while the store
\* holds a message of conversation 2, of the same user, with the created_at of
\* one of them
C17_Witness ==
    /\ Loaded(req[1])
    /\ req[1].conversation = Some(1)
    /\ Len(req[1].history) = 2
    /\ DOMAIN db.conversations = {1, 2}
    /\ db.conversations[1].user_id = db.conversations[2].user_id
    /\ \E k \in 1..Len(db.messages) :
          /\ db.messages[k].conversation_id = 2
          /\ db.messages[k].created_at = req[1].history[2].created_at

(***************************************************************************)
(* Further properties of the Tool Registry, checked under ToolSpec         *)
(***************************************************************************)
\* The last call was complete_task by the owner of the task it names
OwnCompletion ==
    /\ lastCall.name = "complete_task"
    /\ lastCall.args.task_id[1] \in DOMAIN lastCall.before
    /\ lastCall.before[lastCall.args.task_id[1]].user_id = lastCall.user_id

\* ... and the task was complete already, as complete_task leaves a task
RepeatedCompletion ==
    /\ OwnCompletion
    /\ lastCall.before[lastCall.args.task_id[1]].completed
    /\ lastCall.before[lastCall.args.task_id[1]].status = "done"

\* C18 as stated: complete_task on a task of the caller succeeds (a storage
\* error aside) and leaves the task completed; on a task that is complete
\* already it succeeds again and the stored task is identical to what it was.
C18_SecondCompletionChangesNothing ==
    /\ OwnCompletion =>
         \/ lastCall.res = Failure("Failed to complete task: database error")
         \/ /\ lastCall.res.success
            /\ tasks[lastCall.args.task_id[1]].completed
            /\ tasks[lastCall.args.task_id[1]].status = "done"
    /\ (RepeatedCompletion /\ lastCall.res.success) => tasks = lastCall.before

\* C18, amended: ... on a task that is complete already it succeeds again and
\* the stored task is what it was in every field but updated_at, which becomes
\* the time of this call (never earlier than before) and is the updated_at the
\* call returns; no other task changes.
C18_SecondCompletionRewritesOnlyTheTimestamp ==
    /\ OwnCompletion =>
         \/ lastCall.res = Failure("Failed to complete task: database error")
         \/ /\ lastCall.res.success
            /\ tasks[lastCall.args.task_id[1]].completed
            /\ tasks[lastCall.args.task_id[1]].status = "done"
    /\ (RepeatedCompletion /\ lastCall.res.success) =>
         LET id == lastCall.args.task_id[1] IN
         /\ DOMAIN tasks = DOMAIN lastCall.before
         /\ \A i \in DOMAIN tasks : i # id => tasks[i] = lastCall.before[i]
         /\ tasks[id] = [lastCall.before[id] EXCEPT !.updated_at = tasks[id].updated_at]
         /\ tasks[id].updated_at >= lastCall.before[id].updated_at
         /\ tasks[id].updated_at = now
         /\ lastCall.res.data[1].updated_at = tasks[id].updated_at
         /\ lastCall.res.data[1].completed
         /\ lastCall.res.data[1].status = "done"

\* The owner completed the task a second time, one tick after the first time:
\* the call succeeded and the stored updated_at moved
C18_Witness ==
    /\ RepeatedCompletion
    /\ lastCall.res.success
    /\ ops = 2
    /\ lastCall.before[lastCall.args.task_id[1]].updated_at = 1
    /\ tasks[lastCall.args.task_id[1]].updated_at = 2

\* The call was turned down without the tasks table: it failed with an error
\* text, the table is what it was, and the same call gives the same dict on
\* the empty table and when the database is down
RejectedWithoutStore(c) ==
    /\ ~c.res.success
    /\ StructuredFailure(c.res)
    /\ tasks = c.before
    /\ ResultsOn(c.before, c) = {c.res}
    /\ ResultsOn(<<>>, c) = {c.res}

Supplied(o, valid) == o # None /\ o[1] \notin valid

\* The arguments the claim lists, a value counting as supplied whenever the
\* argument is passed
InvalidAsStated(c) ==
    \/ /\ c.name = "add_task"
       /\ \/ c.args.title[1] = ""
          \/ Len(c.args.title[1]) > MaxTitleLen
          \/ Supplied(c.args.priority, Priorities)
          \/ c.args.due_date # None /\ FromIsoFormat(c.args.due_date[1]) = None
    \/ /\ c.name = "list_tasks"
       /\ \/ Supplied(c.args.limit, 1..MaxListLimit)
          \/ Supplied(c.args.status, ListStatuses)
          \/ Supplied(c.args.priority, Priorities)
    \/ /\ c.name = "update_task"
       /\ \/ c.args.title # None /\ (c.args.title[1] = "" \/ Len(c.args.title[1]) > MaxTitleLen)
          \/ Supplied(c.args.priority, Priorities)
          \/ Supplied(c.args.status, KanbanStatuses)

\* ... with the empty string counting as no value for the due_date of add_task
\* and for the status and priority of list_tasks
InvalidNonEmpty(c) ==
    \/ /\ c.name = "add_task"
       /\ \/ c.args.title[1] = ""
          \/ Len(c.args.title[1]) > MaxTitleLen
          \/ Supplied(c.args.priority, Priorities)
          \/ Truthy(c.args.due_date) /\ FromIsoFormat(c.args.due_date[1]) = None
    \/ /\ c.name = "list_tasks"
       /\ \/ Supplied(c.args.limit, 1..MaxListLimit)
          \/ Supplied(c.args.status, ListStatuses \cup {""})
          \/ Supplied(c.args.priority, Priorities \cup {""})
    \/ /\ c.name = "update_task"
       /\ \/ c.args.title # None /\ (c.args.title[1] = "" \/ Len(c.args.title[1]) > MaxTitleLen)
          \/ Supplied(c.args.priority, Priorities)
          \/ Supplied(c.args.status, KanbanStatuses)

NoFieldSupplied(c) ==
    /\ c.name = "update_task"
    /\ c.args.title = None /\ c.args.description = None /\ c.args.status = None
    /\ c.args.priority = None /\ c.args.tags = None /\ c.args.due_date = None

\* The same call with another task_id
Naming(c, i) == [c EXCEPT !.args.task_id = Some(i)]

\* C20: update_task with none of title, description, status, priority, tags
\* and due_date fails with "At least one field must be provided to update",
\* changes no task, and gives that same dict for every task_id (a task of the
\* caller, a task of another user, no task), on the empty table and when the
\* database is down: the table is not consulted.
C20_EmptyUpdateFailsBeforeStorage ==
    NoFieldSupplied(lastCall) =>
        /\ lastCall.res = Failure("At least one field must be provided to update")
        /\ tasks = lastCall.before
        /\ \A i \in 1..(MaxTasks + 1) :
              /\ ResultsOn(lastCall.before, Naming(lastCall, i)) = {lastCall.res}
              /\ ResultsOn(<<>>, Naming(lastCall, i)) = {lastCall.res}

\* The empty update ran on a table that holds a task of the caller and a task
\* of the other user, so that the ids 1, 2 and 3 name a task of the caller, a
\* task of another user and no task
C20_Witness ==
    /\ NoFieldSupplied(lastCall)
    /\ DOMAIN lastCall.before = {1, 2}
    /\ lastCall.before[1].user_id = lastCall.user_id
    /\ lastCall.before[2].user_id # lastCall.user_id
    /\ lastCall.args.task_id = Some(2)
    /\ ~lastCall.res.success

(***************************************************************************)
(* Properties of add_task followed by list_tasks, checked under BacklogSpec *)
(***************************************************************************)
\* The last call was add_task with a title and no optional argument
PlainAdd ==
    /\ lastCall.name = "add_task"
    /\ lastCall.args = [NoArgs EXCEPT !.title = lastCall.args.title]
    /\ lastCall.res.success

\* The last call was list_tasks(user_id) with no argument, and it succeeded
PlainList ==
    /\ lastCall.name = "list_tasks"
    /\ lastCall.args = NoArgs
    /\ lastCall.res.success

\* The ids of the rows a list_tasks result carries
ListedIds(res) == {res.data[k].id : k \in 1..Len(res.data)}

OwnedIds(store, user_id) == {i \in DOMAIN store : store[i].user_id = user_id}

\* A successful add_task(user_id, title) adds exactly one task, with the id it
\* returns, owned by user_id, with the title, priority Medium, not completed,
\* and leaves every other task as it was
AddsOneTask ==
    PlainAdd =>
         LET id == lastCall.res.data[1].id IN
         /\ id \notin DOMAIN lastCall.before
         /\ DOMAIN tasks = DOMAIN lastCall.before \cup {id}
         /\ \A i \in DOMAIN lastCall.before : tasks[i] = lastCall.before[i]
         /\ tasks[id].user_id = lastCall.user_id
         /\ tasks[id].title = lastCall.args.title[1]
         /\ tasks[id].priority = "Medium"
         /\ ~tasks[id].completed

\* C21 as stated: a successful add_task(user_id, title) adds one such task, and
\* a list_tasks(user_id) made afterwards lists tasks of the caller only and has
\* the task added last for the caller among them.
C21_AddedTaskIsAlwaysListed ==
    /\ AddsOneTask
    /\ PlainList =>
         LET own == OwnedIds(lastCall.before, lastCall.user_id) IN
         /\ ListedIds(lastCall.res) \subseteq own
         /\ \A i \in own : (\A j \in own : j <= i) => i \in ListedIds(lastCall.res)

\* C21, amended: ... and a list_tasks(user_id) made afterwards changes nothing
\* and lists min(20, n) different tasks of the n tasks of the caller, as they
\* are stored, and no task of another user: all of them, the added one
\* included, when the caller has at most 20 tasks.
C21_AddedTaskIsListedWithinTheLimit ==
    /\ AddsOneTask
    /\ PlainList =>
         LET own == OwnedIds(lastCall.before, lastCall.user_id)
             data == lastCall.res.data
         IN
         /\ tasks = lastCall.before
         /\ ListedIds(lastCall.res) \subseteq own
         /\ Cardinality(ListedIds(lastCall.res)) = Len(data)
         /\ Len(data) = IF Cardinality(own) < DefaultListLimit
                        THEN Cardinality(own) ELSE DefaultListLimit
         /\ \A k \in 1..Len(data) :
               /\ data[k].title = tasks[data[k].id].title
               /\ data[k].priority = tasks[data[k].id].priority
               /\ data[k].completed = tasks[data[k].id].completed

\* alice listed her tasks after a task was added for her next to bob's task:
\* the list holds her task 2, with priority Medium and not completed, only
C21_Witness ==
    /\ PlainList
    /\ lastCall.user_id = "alice"
    /\ ops = 2
    /\ DOMAIN tasks = {1, 2}
    /\ tasks[1].user_id = "bob"
    /\ Len(lastCall.res.data) = 1
    /\ lastCall.res.data[1].id = 2
    /\ lastCall.res.data[1].priority = "Medium"
    /\ ~lastCall.res.data[1].completed

(***************************************************************************)
(* Further properties of the Chat Request Handler, checked under Spec      *)
(***************************************************************************)
\* C22: no step of a request, successful or failed, removes or changes a
\* stored message: the messages table after the step begins with the table
\* before it, so the rows of every conversation only grow, the rows that the
\* history window no longer reaches included.
C22_MessagesAreAppendOnly ==
    [][/\ Len(db'.messages) >= Len(db.messages)
       /\ \A i \in 1..Len(db.messages) : db'.messages[i] = db.messages[i]]_vars

\* A request on the conversation with 22 messages was answered 200: it had
\* loaded 20 of them, and all 22 are stored in front of its own two
C22_Witness ==
    /\ Len(served) = 1
    /\ served[1].status = 200
    /\ served[1].conversation = Some(1)
    /\ Len(db.messages) = HistoryLimit + 4
    /\ SubSeq(db.messages, 1, HistoryLimit + 2) = LongDb.messages
    /\ db.messages[HistoryLimit + 3].request = 1
    /\ db.messages[HistoryLimit + 4].request = 1

\* The message arrays the committed store allows for a request on a
\* conversation with a new message: a function of the store and the inputs
ContextsFrom(store, conversation_id, message) ==
    {MessageArray(h, message) :
        h \in get_conversation_messages(store.messages, conversation_id, HistoryLimit)}

SuccessfulUpdate ==
    /\ lastCall.name = "update_task"
    /\ lastCall.res.success

\* The columns of a task that update_task takes as arguments, and those of
\* them that a call supplied
Updatable == {"title", "description", "status", "priority", "tags", "due_date"}
SuppliedFields(a) == {f \in Updatable : a[f] # None}

\* The columns in which two rows of the tasks table differ
ChangedFields(old, new) == {f \in DOMAIN old : new[f] # old[f]}

\* No other task was changed, added or removed by the last call
OnlyTouched(id) ==
    /\ DOMAIN tasks = DOMAIN lastCall.before
    /\ \A i \in DOMAIN tasks : i # id => tasks[i] = lastCall.before[i]

CommittedOf(conversation_id) ==
    {db.messages[i] : i \in RowsOf(db.messages, conversation_id)}

Smaller(a, b) == IF a <= b THEN a ELSE b

\* C25: the message array handed to the agent loop is the system prompt, then
\* the committed messages of the resolved conversation that the handler
\* loaded, which are distinct rows, as many as there are up to 20, none older
\* than a row left out, in ascending created_at, then the new message as a
\* user entry.  The new message is in the array once: no loaded row is of
\* this request and the handler adds no second user entry.  For a
\* conversation created by the request the array starts as these two entries.
C25_ContextIsPromptHistoryMessage ==
    \A r \in Reqs : LET q == req[r] IN
      Loaded(q) =>
        LET rows == CommittedOf(q.conversation[1])
            k == Smaller(HistoryLimit, Cardinality(rows))
            loaded == {q.history[i] : i \in 1..Len(q.history)}
        IN
        /\ Len(q.history) = k
        /\ q.base = k + 2
        /\ Len(q.ctx) >= q.base
        /\ q.ctx[1] = Entry("system", Text(SystemPrompt))
        /\ q.ctx[q.base] = Entry("user", Text(q.message))
        /\ loaded \subseteq rows
        /\ Cardinality(loaded) = k
        /\ \A i \in 1..k :
              q.ctx[i + 1] = Entry(q.history[i].role, Text(q.history[i].content))
        /\ \A i \in 1..k, j \in 1..k :
              i < j => q.history[i].created_at <= q.history[j].created_at
        /\ \A old \in rows \ loaded, new \in loaded : old.created_at <= new.created_at
        /\ \A i \in 1..k : q.history[i].request # q.number
        /\ Cardinality({i \in q.base..Len(q.ctx) : q.ctx[i].role = "user"}) = 1
        /\ (q.iterations = 0 /\ q.pc = "agent") => Len(q.ctx) = q.base
        /\ ~TruthyId(q.conversation_id) =>
              /\ q.base = 2
              /\ SubSeq(q.ctx, 1, 2) = <<Entry("system", Text(SystemPrompt)),
                                         Entry("user", Text(q.message))>>

\* A request on the conversation that holds 22 messages is about to enter the
\* agent loop: its array has the prompt, the 20 newest messages (the two
\* oldest are left out) and the new message
C25_Witness ==
    /\ req[1].pc = "agent"
    /\ req[1].iterations = 0
    /\ req[1].conversation = Some(1)
    /\ Cardinality(CommittedOf(1)) = HistoryLimit + 2
    /\ Len(req[1].ctx) = HistoryLimit + 2
    /\ req[1].history[1] = db.messages[3]
    /\ req[1].ctx[2] = Entry("user", Text("What is on my list?"))
    /\ req[1].ctx[HistoryLimit + 2] = Entry("user", Text(req[1].message))

\* The step answers a request with an error status
FailsRequest ==
    /\ Len(served') = Len(served) + 1
    /\ served'[Len(served')].status # 200

ConcurrentInit ==
    /\ tasks = <<>>
    /\ nextTaskId = 1
    /\ now = SeededDb.messages[Len(SeededDb.messages)].created_at
    /\ lastCall = NoCall
    /\ ops = 0
    /\ req = [r \in Reqs |-> IdleReq]
    /\ served = <<>>
    /\ db = SeededDb

\* POST /api/{user_id}/chat by alice with conversation_id 1
ConcurrentStart(r) ==
    /\ req[r].pc = "idle"
    /\ Len(served) + Cardinality(Active) < MaxRequests
    /\ \E m \in RequestMessages :
         req' = [req EXCEPT ![r] =
                   [IdleReq EXCEPT !.pc = "resolve", !.caller = "handler", !.stub = "handler",
                                   !.user_id = "alice", !.conversation_id = Some(1),
                                   !.message = m,
                                   !.number = Len(served) + Cardinality(Active) + 1]]
    /\ UNCHANGED <<toolVars, chatVars>>

ConcurrentNext ==
    \E r \in Reqs :
      \/ ConcurrentStart(r)
      \/ ResolveExisting(r)
      \/ FetchHistory(r)
      \/ StorageError(r)
      \/ AgentStep(r)
      \/ AgentUnavailable(r)
      \/ Commit(r)
      \/ CommitFails(r)

ConcurrentSpec == ConcurrentInit /\ [][ConcurrentNext]_vars

\* Both requests were answered 200
BothSucceeded ==
    /\ Len(served) = MaxRequests
    /\ \A i \in 1..Len(served) : served[i].status = 200

\* The committed rows of a request with a role
RowsWithRole(n, role) ==
    {i \in 1..Len(db.messages) : db.messages[i].request = n /\ db.messages[i].role = role}

\* The store holds what it held and, of each request, one user row with its
\* message and one assistant row with its reply: four new rows, none lost
\* and none overwritten
PairsKept ==
    /\ Len(db.messages) = Len(SeededDb.messages) + 2 * Len(served)
    /\ SubSeq(db.messages, 1, Len(SeededDb.messages)) = SeededDb.messages
    /\ \A i \in 1..Len(db.messages) : db.messages[i].id = i
    /\ \A e \in {served[i] : i \in 1..Len(served)} :
          /\ Cardinality(RowsWithRole(e.number, "user")) = 1
          /\ Cardinality(RowsWithRole(e.number, "assistant")) = 1
          /\ \A i \in RowsWithRole(e.number, "user") :
                db.messages[i].content = e.message /\ db.messages[i].conversation_id = 1
          /\ \A i \in RowsWithRole(e.number, "assistant") :
                db.messages[i].content = e.response[1] /\ db.messages[i].conversation_id = 1

\* In a history of the conversation the user row of each request comes
\* before the assistant row of that request
UserBeforeReply(history) ==
    \A i \in 1..Len(history), j \in 1..Len(history) :
      (/\ history[i].request = history[j].request
       /\ history[i].role = "user"
       /\ history[j].role = "assistant") => i < j

\* C27: after two requests on one conversation that were served in any
\* interleaving and both succeeded, the store holds the full pair of each
\* (four new messages, none lost or overwritten), and in the history of the
\* conversation in chronological order the user message of each request
\* precedes the reply of that request.
C27_BothPairsKeptInOrder ==
    BothSucceeded =>
      /\ PairsKept
      /\ \A history \in get_conversation_messages(db.messages, 1, HistoryLimit) :
            UserBeforeReply(history)

\* The request that started second was answered first, both with 200; all
\* four messages are stored, and the first request's two rows carry one
\* created_at, so that a history can bring its reply before its message
C27_Witness ==
    /\ BothSucceeded
    /\ served[1].number = 2
    /\ PairsKept
    /\ \E i \in RowsWithRole(1, "user"), j \in RowsWithRole(1, "assistant") :
          db.messages[i].created_at = db.messages[j].created_at
    /\ \E history \in get_conversation_messages(db.messages, 1, HistoryLimit) :
          ~UserBeforeReply(history)

\* C28: in every state of the tasks table reached through add_task,
\* update_task, complete_task and delete_task calls, the completed flag of
\* each task is true exactly when its status is "done".
C28_CompletedIffDone ==
    \A i \in DOMAIN tasks : tasks[i].completed <=> (tasks[i].status = "done")

\* A task that was done and complete was moved back to "in_progress" by its
\* owner with update_task: the call succeeded, the status changed and the
\* completed flag stayed true
C28_Witness ==
    /\ SuccessfulUpdate
    /\ lastCall.args.status = Some("in_progress")
    /\ lastCall.before[lastCall.args.task_id[1]].completed
    /\ lastCall.before[lastCall.args.task_id[1]].status = "done"
    /\ tasks[lastCall.args.task_id[1]].completed
    /\ tasks[lastCall.args.task_id[1]].status = "in_progress"

\* The rows of the tasks table that a user owns
TasksOf(store, user_id) == {store[i] : i \in OwnedIds(store, user_id)}

\* C29: in every step a task that stays in the table keeps its owner, a task
\* that enters the table comes from an add_task call and is owned by the
\* user_id of that call, and the tasks a user owns (which tasks, and what
\* they hold) change only in a tool call made with that user's id.
C29_OwnerNeverChanges ==
    [][/\ \A i \in DOMAIN tasks \cap DOMAIN tasks' : tasks'[i].user_id = tasks[i].user_id
       /\ \A i \in DOMAIN tasks' \ DOMAIN tasks :
             /\ lastCall'.name = "add_task"
             /\ tasks'[i].user_id = lastCall'.user_id
             /\ i = nextTaskId
       /\ \A u \in Users :
             TasksOf(tasks', u) # TasksOf(tasks, u) =>
                /\ lastCall.name = NoCall.name
                /\ lastCall'.name \in ToolNames
                /\ lastCall'.user_id = u]_vars

\* alice and bob own a task each, and bob's call to delete alice's task has
\* just been answered with a miss: both tasks are in the table, owned as
\* they were created
C29_Witness ==
    /\ DOMAIN tasks = {1, 2}
    /\ tasks[1].user_id = "alice"
    /\ tasks[2].user_id = "bob"
    /\ lastCall.name = "delete_task"
    /\ lastCall.user_id = "bob"
    /\ lastCall.args.task_id = Some(1)
    /\ lastCall.res = NotFound
    /\ tasks = lastCall.before

\* run is about to execute a requested call whose name is not in the catalogue
AtUnknownTool(q) ==
    /\ q.pc = "tools"
    /\ q.tool_calls[q.next].name \notin ToolNames

\* The step executes the call without a tool function: the tasks table, the
\* id sequence and the record of the last tool call stay, the dict with the
\* error is appended as the tool entry of this call, and run goes on with the
\* call after it, or with the next pass of the loop after the last call
AnsweredWithout(q, p, error) ==
    /\ tasks' = tasks
    /\ nextTaskId' = nextTaskId
    /\ lastCall' = lastCall
    /\ db' = db
    /\ p.ctx = Append(q.ctx,
                 [role |-> "tool",
                  content |-> [text |-> "",
                               json |-> Some([success |-> FALSE, error |-> Some(error),
                                              data |-> None, count |-> None,
                                              message |-> None])],
                  tool_calls |-> None,
                  tool_call_id |-> Some(q.tool_calls[q.next].id)])
    /\ p.tool_calls = q.tool_calls
    /\ p.next = q.next + 1
    /\ p.model_calls = q.model_calls
    /\ p.pc = IF q.next < Len(q.tool_calls) THEN "tools" ELSE "agent"

\* C30 as stated: a requested call with a name outside the catalogue is not
\* dispatched, touches no store, gets the result {success: false, error:
\* "Unknown tool: <name>"} as its tool entry, and the loop continues.
C30_UnknownToolIsNamed ==
    [][\A r \in Reqs :
         (AtUnknownTool(req[r]) /\ req'[r] # req[r]) =>
            AnsweredWithout(req[r], req'[r],
                            "Unknown tool: " \o req[r].tool_calls[req[r].next].name)]_vars

\* C30, amended: ... gets as its tool entry the result {success: false, error:
\* "Unknown tool: <name>"} when its argument payload is JSON text, and the
\* failure of the parse, {success: false, error: "Tool execution failed: ..."},
\* when it is not (the payload is parsed before the name is looked up); in both
\* cases it is not dispatched, touches no store, and the loop continues.
C30_UnknownToolIsNotDispatched ==
    [][\A r \in Reqs :
         (AtUnknownTool(req[r]) /\ req'[r] # req[r]) =>
            LET tool_call == req[r].tool_calls[req[r].next] IN
            AnsweredWithout(req[r], req'[r],
                            IF tool_call.arguments.wellformed
                            THEN "Unknown tool: " \o tool_call.name
                            ELSE "Tool execution failed: JSONDecodeError")]_vars

\* The model asked for drop_tasks and then list_tasks in one response: the
\* first call was answered "Unknown tool: drop_tasks" on an unchanged table,
\* the second was dispatched, and run is back at the model call
C30_Witness ==
    /\ req[1].pc = "agent"
    /\ Len(req[1].tool_calls) = 2
    /\ req[1].tool_calls[1].name = "drop_tasks"
    /\ req[1].next = 3
    /\ req[1].ctx[Len(req[1].ctx) - 1].content.json[1].error = Some("Unknown tool: drop_tasks")
    /\ req[1].ctx[Len(req[1].ctx) - 1].tool_call_id = Some("call_1")
    /\ req[1].ctx[Len(req[1].ctx)].tool_call_id = Some("call_2")
    /\ lastCall.name = "list_tasks"
    /\ lastCall.res.success

====
